---- MODULE Spec2Model ----
(***************************************************************************)
(* A model of the Xiaozhi assistant integration                            *)
(* (custom_components/xiaozhi): the pipeline cache of models.py, the       *)
(* WebSocket client of client.py / base_ws.py, the audio functions of      *)
(* audio.py and the pipeline stages of stt.py, conversation.py and tts.py. *)
(*                                                                         *)
(* SpecCache runs the operations of PipelineCacheManager on its entries    *)
(* against a clock, SpecColl its operations on collectors.  SpecClient     *)
(* runs the text path of the client: send_text callers, the read loop,     *)
(* disconnect and reconnection, against a server that answers each text    *)
(* turn with a stream of fragments and audio frames ended by a tts "stop"; *)
(* SpecDrain runs the same with the first NPair callers.  SpecWrites runs  *)
(* every writer of the socket: the first NPair send_text callers, the      *)
(* voice path's sends and the read loop's tool responses, against a server *)
(* that answers a text turn with its tts "stop" alone.  SpecVoice runs the *)
(* voice-session slot against a server that answers voice turns, beside    *)
(* one send_text call; SpecSlot runs the slot alone.  SpecConn runs the    *)
(* connection alone, with attempts that fail at the transport or at the    *)
(* hello handshake; SpecConnFair adds the scheduler's fairness and a       *)
(* server that accepts in the end.  SpecReentry runs the connection of a   *)
(* client whose connect() is called again while it is connected.           *)
(* SpecDrainFair is SpecDrain under a scheduler that runs what is ready.   *)
(* SpecFrame applies the binary-frame functions of audio.py to payloads    *)
(* and to received frames, SpecOgg its OGG/Opus writer and parser to       *)
(* packet sequences.  SpecTurn runs two voice turns through the            *)
(* recognition path of stt.py with its background task, the conversation   *)
(* path of conversation.py and the synthesis path of tts.py;               *)
(* SpecCollectFair runs the recognition path and the background task       *)
(* alone, under a scheduler that runs what is ready; SpecCancelFair adds   *)
(* calls of the recognition path that are cancelled.  SpecTts runs the tts *)
(* handler on the texts of the fragments, SpecRead the read loop on the    *)
(* messages of a server, protocol errors among them, and SpecTail the OGG  *)
(* parser on streams that end inside a packet.                             *)
(***************************************************************************)
EXTENDS Integers, Sequences, FiniteSets, TLC

(***************************************************************************)
(* Optional values: Python's None and a present value.                     *)
(***************************************************************************)
None == <<>>
Some(x) == <<x>>

(***************************************************************************)
(* PART I.  models.py: PipelineCacheManager                                *)
(***************************************************************************)

\* Program constants.
PIPELINE_CACHE_TTL == 30
CLEANUP_INTERVAL == 10

\* Bounds of the cache model.
MaxStores == 3    \* entries ever written by store / complete_collector
MaxColl == 2      \* collectors ever created
TickStep == 10    \* seconds the clock advances in one step
MaxTime == 50     \* the clock stops here

\* The recognized texts, the response texts and the audio chunk lists that
\* callers pass in.
Keys == {"turn on lights", "turn off fan"}
Resps == {"Done", "OK"}
ChunkLists == {<<"a", "b">>, <<"c">>}

VARIABLES
    now,             \* time.monotonic()
    cache,           \* _cache: stt_text -> PipelineCache
    response_index,  \* _response_index: response_text -> stt_text
    collectors,      \* _collectors: stt_text -> deque of collectors (by id)
    coll,            \* every PipelineResultCollector created, by id
    last_cleanup,    \* _last_cleanup
    nstores,         \* entries written so far
    evicted,         \* what the sweep of the latest operation removed
    last,            \* the last operation performed, its arguments and result
    \* ---- client (PART II) ----
    state,           \* _state
    ws,              \* _ws: "none" | "open" | "closed"
    listener,        \* the read-loop task (_listener_task) is running
    should_reconnect,\* _should_reconnect
    reconnect_delay, \* _reconnect_delay
    cpc,             \* the position of connect() and of the reconnect task
    rtimer,          \* seconds left of the reconnect task's sleep
    fails,           \* attempts of the reconnect task that failed in a row
    lold,            \* the read-loop task reads a socket that _ws has replaced
    orphans,         \* read loops running that _listener_task no longer names
    nretry,          \* reconnect tasks running
    sched,           \* what _schedule_reconnect did for the running reconnect task
    dpc,             \* the position of a disconnect() call
    tts_done,        \* _tts_done is set
    lock,            \* _send_lock: 0 when free, else the caller holding it
    pending,         \* _pending: None or Some(PendingRequest)
    pc,              \* each send_text caller's position
    drained,         \* how each caller's pre-send drain ended
    result,          \* what each send_text call returned or raised
    prev,            \* the send_text call that last released the lock
    timer,           \* seconds left of the lock holder's wait_for
    vw,              \* the send the voice path is inside of, if any
    active,          \* _active_voice_session: 0 or a session id
    sess,            \* every VoicePipelineSession created, by id
    wire,            \* messages sent by the server, not yet read by the read loop
    srv,             \* the server's progress on each text turn
    emitted,         \* content messages the server has sent so far
    rw,              \* the send the read loop is inside of, if any
    openAt,          \* per caller: the turns still open when it created its request
    \* ---- audio (PART III) ----
    ain,             \* what an audio function is given: None or Some(value)
    amid,            \* the encoded bytes: a frame or a stream, None or Some(bytes)
    aout,            \* what the decoding function returned
    aop,             \* the audio function applied last
    \* ---- a voice turn (PART IV) ----
    rec,             \* each turn's recognition path
    bg,              \* each turn's background collection task
    conv,            \* each turn's conversation path
    syn,             \* each turn's synthesis path
    ans              \* the server's progress on each voice turn

cacheVars == <<now, cache, response_index, collectors, coll, last_cleanup, nstores,
               evicted>>
clientVars == <<state, ws, listener, should_reconnect, reconnect_delay, cpc, rtimer,
                fails, lold, orphans, nretry, sched, dpc, tts_done, lock, pending, pc, drained, result, prev, timer, vw,
                active, sess, wire, srv, emitted, rw, openAt>>
audioVars == <<ain, amid, aout, aop>>
\* The variables outside the cache and the client.
turnVars == <<rec, bg, conv, syn, ans>>
auxVars == <<audioVars, turnVars>>
vars == <<cacheVars, last, clientVars, auxVars>>

\* The record of an operation: what was called, with what, and what it returned.
\* Arguments that a call does not take are "" or empty; get_audio_by_response
\* records under key the stt_text it found in the reverse index.
Op(name, k, r, ch, entry, audio, c) ==
    [op |-> name, key |-> k, resp |-> r, chunks |-> ch,
     ret_entry |-> entry, ret_audio |-> audio, ret_coll |-> c]

NoOp == Op("none", "", "", <<>>, None, None, 0)

\* PipelineCache(stt_text, response_text, audio_chunks), created_at = now.
PipelineCache(k, r, ch) ==
    [stt_text |-> k, response_text |-> r, audio_chunks |-> ch, created_at |-> now]

\* PipelineResultCollector(stt_text).
PipelineResultCollector(k) ==
    [stt_text |-> k, ready |-> FALSE, response_text |-> None,
     audio_chunks |-> <<>>, created_at |-> now]

\* PipelineResultCollector.complete
complete(c, r, ch) ==
    [c EXCEPT !.response_text = Some(r), !.audio_chunks = ch, !.ready = TRUE]

\* A fail that does not set the ready signal.
forget(c) == c

\* PipelineResultCollector.fail
fail(c) == [c EXCEPT !.ready = TRUE]

\* A pop that removes nothing.
DictKeep(d, ks) == d

\* dict.pop(k, None) on a dict modelled as a function over its keys.
DictPop(d, ks) == [x \in (DOMAIN d) \ ks |-> d[x]]
\* d[k] = v
DictSet(d, k, v) == [x \in (DOMAIN d) \cup {k} |-> IF x = k THEN v ELSE d[x]]

\* An age test that finds nothing expired.
NeverExpired(created_at) == FALSE

\* now - created_at > self._ttl
Expired(created_at) == now - created_at > PIPELINE_CACHE_TTL

\* The guard of _cleanup_if_needed: it returns early when
\* now - self._last_cleanup < _CLEANUP_INTERVAL.
CleanupDue == ~(now - last_cleanup < CLEANUP_INTERVAL)

\* The expired collectors at the head of a queue (while q and q[0] expired).
RECURSIVE ExpiredPrefix(_)
ExpiredPrefix(q) ==
    IF q # <<>> /\ Expired(coll[Head(q)].created_at)
    THEN 1 + ExpiredPrefix(Tail(q))
    ELSE 0

\* What a sweep removed: the keys of the entries and the collectors.
Evicted(ks, cs) == [keys |-> ks, colls |-> cs]

\* _cleanup_if_needed: the cache state it leaves.
Swept ==
    IF ~CleanupDue
    THEN [cache |-> cache, response_index |-> response_index,
          collectors |-> collectors, coll |-> coll, last_cleanup |-> last_cleanup,
          evicted |-> Evicted({}, {})]
    ELSE
      LET expired == {k \in DOMAIN cache : Expired(cache[k].created_at)}
          gone(k) == {collectors[k][i] : i \in 1..ExpiredPrefix(collectors[k])}
          allGone == UNION {gone(k) : k \in Keys}
      IN [cache |-> DictPop(cache, expired),
          response_index |->
              DictPop(response_index, {cache[k].response_text : k \in expired}),
          collectors |->
              [k \in Keys |->
                  SubSeq(collectors[k], ExpiredPrefix(collectors[k]) + 1,
                         Len(collectors[k]))],
          coll |-> [i \in DOMAIN coll |->
                       IF i \in allGone THEN fail(coll[i]) ELSE coll[i]],
          last_cleanup |-> now,
          evicted |-> Evicted(expired, allGone)]

\* The cache state as it is, for the operations that do not sweep.
Unswept ==
    [cache |-> cache, response_index |-> response_index,
     collectors |-> collectors, coll |-> coll, last_cleanup |-> last_cleanup,
     evicted |-> Evicted({}, {})]

\* A store that writes the forward map only.
store_forward_only(s, k, r, ch) ==
    [s EXCEPT !.cache = DictSet(s.cache, k, PipelineCache(k, r, ch))]

\* _store_locked applied to a cache state s.
store_locked(s, k, r, ch) ==
    [s EXCEPT !.cache = DictSet(s.cache, k, PipelineCache(k, r, ch)),
              !.response_index = DictSet(s.response_index, r, k)]

\* A pop that leaves the collector in its queue.
KeepOldest(s, k, c) ==
    IF s.collectors[k] # <<>>
    THEN [s EXCEPT !.coll[Head(s.collectors[k])] = c]
    ELSE s

\* A pop from the wrong end: the newest collector of the queue is popped.
PopNewest(s, k, c) ==
    IF s.collectors[k] # <<>>
    THEN [s EXCEPT !.collectors[k] = SubSeq(s.collectors[k], 1, Len(s.collectors[k]) - 1),
                   !.coll[s.collectors[k][Len(s.collectors[k])]] = c]
    ELSE s

\* q[0] of the queue of k, when the queue is not empty.
Oldest(k) == coll[Head(collectors[k])]

\* "if q: collector = q.popleft(); ...": the oldest collector of the queue is
\* popped and becomes c.
PopOldest(s, k, c) ==
    IF s.collectors[k] # <<>>
    THEN [s EXCEPT !.collectors[k] = Tail(s.collectors[k]),
                   !.coll[Head(s.collectors[k])] = c]
    ELSE s

\* Writes a cache state back.
Commit(s) ==
    /\ cache' = s.cache
    /\ response_index' = s.response_index
    /\ collectors' = s.collectors
    /\ coll' = s.coll
    /\ last_cleanup' = s.last_cleanup
    /\ evicted' = s.evicted

create_collector(k) ==
    /\ Len(coll) < MaxColl
    /\ LET s == Swept
           id == Len(coll) + 1
       IN /\ Commit([s EXCEPT !.coll = Append(s.coll, PipelineResultCollector(k)),
                              !.collectors[k] = Append(s.collectors[k], id)])
          /\ last' = Op("create_collector", k, "", <<>>, None, None, id)
    /\ UNCHANGED <<now, nstores, clientVars, auxVars>>
get_collector(k) ==
    /\ last' = Op("get_collector", k, "", <<>>, None, None,
                  IF collectors[k] # <<>> THEN Head(collectors[k]) ELSE 0)
    /\ UNCHANGED <<cacheVars, clientVars, auxVars>>
complete_collector(k, r, ch) ==
    /\ nstores < MaxStores
    /\ LET s == PopOldest(Unswept, k, complete(Oldest(k), r, ch))
       IN Commit(store_locked(s, k, r, ch))
    /\ nstores' = nstores + 1
    /\ last' = Op("complete_collector", k, r, ch, None, None,
                  IF collectors[k] # <<>> THEN Head(collectors[k]) ELSE 0)
    /\ UNCHANGED <<now, clientVars, auxVars>>
fail_collector(k) ==
    /\ LET s == PopOldest(Unswept, k, fail(Oldest(k)))
           keys_to_remove == {r \in DOMAIN s.response_index : s.response_index[r] = k}
       IN Commit([s EXCEPT !.response_index = DictPop(s.response_index, keys_to_remove)])
    /\ last' = Op("fail_collector", k, "", <<>>, None, None,
                  IF collectors[k] # <<>> THEN Head(collectors[k]) ELSE 0)
    /\ UNCHANGED <<now, nstores, clientVars, auxVars>>
store(k, r, ch) ==
    /\ nstores < MaxStores
    /\ Commit(store_locked(Swept, k, r, ch))
    /\ nstores' = nstores + 1
    /\ last' = Op("store", k, r, ch, None, None, 0)
    /\ UNCHANGED <<now, clientVars, auxVars>>
get_by_input(k) ==
    /\ LET s == Swept
           entry == IF k \in DOMAIN s.cache THEN Some(s.cache[k]) ELSE None
       IN /\ Commit([s EXCEPT
                 !.cache = DictPop(s.cache, {k}),
                 !.response_index =
                     IF entry # None
                     THEN DictPop(s.response_index, {entry[1].response_text})
                     ELSE s.response_index])
          /\ last' = Op("get_by_input", k, "", <<>>, entry, None, 0)
    /\ UNCHANGED <<now, nstores, clientVars, auxVars>>
get_audio_by_response(r) ==
    /\ LET s == Swept
           stt_text == IF r \in DOMAIN s.response_index
                       THEN Some(s.response_index[r]) ELSE None
           entry == IF stt_text # None /\ stt_text[1] \in DOMAIN s.cache
                    THEN Some(s.cache[stt_text[1]]) ELSE None
       IN /\ Commit([s EXCEPT
                 !.response_index = DictPop(s.response_index, {r}),
                 !.cache = IF stt_text # None
                           THEN DictPop(s.cache, {stt_text[1]}) ELSE s.cache])
          /\ last' = Op("get_audio_by_response",
                        IF stt_text # None THEN stt_text[1] ELSE "", r, <<>>, None,
                        IF entry # None THEN Some(entry[1].audio_chunks) ELSE None, 0)
    /\ UNCHANGED <<now, nstores, clientVars, auxVars>>
\* The clock advances.
TickCache ==
    /\ now + TickStep <= MaxTime
    /\ now' = now + TickStep
    /\ last' = Op("tick", "", "", <<>>, None, None, 0)
    /\ UNCHANGED <<cache, response_index, collectors, coll, last_cleanup, nstores,
                   evicted, clientVars, auxVars>>
\* PipelineCacheManager.__init__.  time.monotonic() is already past one cleanup
\* interval when the manager is built, so the first sweeping call sweeps.
InitCache ==
    /\ now = CLEANUP_INTERVAL
    /\ cache = <<>>
    /\ response_index = <<>>
    /\ collectors = [k \in Keys |-> <<>>]
    /\ coll = <<>>
    /\ last_cleanup = 0
    /\ nstores = 0
    /\ evicted = Evicted({}, {})

NextCache ==
    \/ \E k \in Keys, r \in Resps, ch \in ChunkLists : complete_collector(k, r, ch)
    \/ \E k \in Keys : fail_collector(k)
    \/ \E k \in Keys, r \in Resps, ch \in ChunkLists : store(k, r, ch)
    \/ \E k \in Keys : get_by_input(k)
    \/ \E r \in Resps : get_audio_by_response(r)
    \/ TickCache

TickColl == TickCache

\* The collectors: created (which sweeps), peeked, completed and failed.  Every
\* turn is answered with the same response and audio.
NextColl ==
    \/ \E k \in Keys : create_collector(k)
    \/ \E k \in Keys : get_collector(k)
    \/ \E k \in Keys : complete_collector(k, "Done", <<"c">>)
    \/ \E k \in Keys : fail_collector(k)
    \/ TickColl


(***************************************************************************)
(* PART II.  client.py / base_ws.py: XiaozhiWebSocketClient                *)
(***************************************************************************)

\* Program constants.
RECONNECT_MIN_DELAY == 5
RECONNECT_MAX_DELAY == 60
RECONNECT_BACKOFF_FACTOR == 2
DrainTimeout == 5
ResponseTimeout == 5

\* Bounds of the client model.
NCallers == 3     \* send_text calls
NPair == 2        \* send_text calls of SpecDrain and SpecWrites
MaxSess == 2      \* voice sessions ever created
MaxWire == 2      \* messages in flight from the server
MaxOrphans == 1   \* read loops running beside the one _listener_task names
MaxFail == 4      \* attempts of the reconnect task that fail in a row
MaxEmit == 2      \* fragments, audio frames and stt results the server ever sends
Quantum == 5      \* seconds the client's clock advances in one step

Callers == 1..NCallers
Pair == 1..NPair
\* The voice path's sends are written by one task, numbered 0.
VoiceTask == 0
\* The read loop is one task as well.
ReadLoopTask == -1
VoiceSends == {"start_listening", "send_audio_frame", "stop_listening"}

taskVars == <<lold, orphans, nretry, sched>>
connVars == <<state, ws, listener, should_reconnect, reconnect_delay, cpc, rtimer, fails,
             taskVars, dpc>>
textVars == <<tts_done, lock, pending, pc, drained, result, prev, timer, openAt>>
voiceVars == <<vw, active, sess>>
envVars == <<wire, srv, emitted, rw>>

\* An asyncio.Future: pending, resolved with a value, rejected or cancelled.
Future(st, val) == [st |-> st, val |-> val]
PendingFuture == Future("pending", <<>>)

\* PendingRequest(text, future): the text stands for the call that sent it.
PendingRequest(c) ==
    [text |-> c, future |-> PendingFuture,
     response_chunks |-> <<>>, audio_chunks |-> <<>>]

\* VoicePipelineSession()
VoicePipelineSession(id) ==
    [session_id |-> id, stt_text |-> None, stt_event |-> FALSE,
     audio_chunks |-> <<>>, tts_future |-> PendingFuture, response_chunks |-> <<>>]

\* " ".join(chunks): the joined text, kept as the list of its fragments.
Join(chunks) == chunks

\* What a send_text call returned or raised.
Outcome(st, text, audio) == [st |-> st, text |-> text, audio |-> audio]
NoOutcome == Outcome("none", <<>>, <<>>)

\* is_connected
is_connected == state = "authenticated"

\* A message of the server: its kind, the text turn it belongs to (0 for
\* none) and its "text" field.  What a fragment or an audio frame carries
\* differs from turn to turn, so the turn stands for the content.
Msg(kind, t, text) == [kind |-> kind, turn |-> t, text |-> text]
Payload(m) == m.turn

\* The text turns the server has begun and whose tts stop the read loop has
\* not handled.
OpenTurns == {t \in Callers : srv[t] \in {"streaming", "stopped"}}

\* The tasks inside a ws.send.
Writers ==
    {c \in Callers : pc[c] = "sending"}
        \cup (IF vw \in VoiceSends THEN {VoiceTask} ELSE {})
        \cup (IF rw = "tool_response" THEN {ReadLoopTask} ELSE {})

\* A _fail_pending that rejects the waiter of every session it has seen.
FailedEvery(ss, a) ==
    [i \in DOMAIN ss |->
        IF ss[i].tts_future.st = "pending"
        THEN [ss[i] EXCEPT !.tts_future = Future("exception", <<>>), !.stt_event = TRUE]
        ELSE ss[i]]

\* _fail_pending: what it makes of the pending request and of the sessions.
FailedPending(p) ==
    IF p # None /\ p[1].future.st = "pending"
    THEN Some([p[1] EXCEPT !.future = Future("exception", <<>>)])
    ELSE p

FailedSess(ss, a) ==
    IF a # 0 /\ ss[a].tts_future.st = "pending"
    THEN [ss EXCEPT ![a].tts_future = Future("exception", <<>>),
                    ![a].stt_event = TRUE]
    ELSE ss

\* A socket that closes takes the messages in flight with it, ends the
\* server's turns and fails the sends in progress.
LostWrites(p) == [c \in Callers |-> IF p[c] = "sending" THEN "sendfail" ELSE p[c]]
LostVoiceWrite(v) == IF v \in VoiceSends THEN "failed" ELSE v
LostTurns(sv) ==
    [t \in Callers |-> IF sv[t] \in {"streaming", "stopped"} THEN "gone" ELSE sv[t]]

\* ------------------------------------------------------------------------
\* Connection life cycle (base_ws.py)
\* ------------------------------------------------------------------------

\* No connect() call is in progress: none was made, the last one returned or
\* it raised.
NoConnect == cpc.user \in {"idle", "raised"}

\* A test that never finds a reconnect task.
NeverRunning == FALSE

\* _schedule_reconnect: a reconnect task exists and is not done.
RetryRunning == cpc.retry # "none"

\* _connect_once returns: the read loop it started takes the place of the
\* one _listener_task named, and the reconnect task that ran it is done.
AttemptDone(who) ==
    /\ listener' = TRUE
    /\ lold' = FALSE
    /\ orphans' = IF listener THEN orphans + 1 ELSE orphans
    /\ cpc' = [cpc EXCEPT ![who] = IF who = "user" THEN "idle" ELSE "none"]
    /\ fails' = 0
    /\ nretry' = IF who = "retry" THEN nretry - 1 ELSE nretry
    /\ sched' = IF who = "retry" THEN "none" ELSE sched

\* connect(), up to the wait for the transport.
connect ==
    /\ NoConnect /\ cpc.retry = "none" /\ dpc = "idle" /\ ~listener
    /\ should_reconnect' = TRUE
    /\ state' = "connecting"
    /\ cpc' = [cpc EXCEPT !.user = "opening"]
    /\ UNCHANGED <<ws, listener, reconnect_delay, rtimer, fails, taskVars, dpc>>
    /\ UNCHANGED <<textVars, voiceVars, envVars, last, cacheVars, auxVars>>
\* _connect_once: the transport opens; _on_connected sends hello.
OpenOk(who) ==
    /\ cpc[who] = "opening"
    /\ ws' = "open"
    /\ wire' = <<>>
    /\ reconnect_delay' = RECONNECT_MIN_DELAY
    /\ state' = "connected"
    /\ tts_done' = TRUE
    /\ cpc' = [cpc EXCEPT ![who] = "hello"]
    /\ lold' = listener
    /\ UNCHANGED <<listener, should_reconnect, rtimer, fails, orphans, nretry, sched, dpc>>
    /\ UNCHANGED <<lock, pending, pc, drained, result, prev, timer, openAt>>
    /\ UNCHANGED <<voiceVars, srv, emitted, rw, last, cacheVars, auxVars>>
\* _hello_handshake: the server's hello arrives; the read loop starts.
HelloOk(who) ==
    /\ cpc[who] = "hello"
    /\ ws = "open"
    /\ state' = "authenticated"
    /\ AttemptDone(who)
    /\ UNCHANGED <<ws, should_reconnect, reconnect_delay, rtimer, dpc>>
    /\ UNCHANGED <<textVars, voiceVars, envVars, last, cacheVars, auxVars>>
\* What a reconnect task is: its position, its sleep and its count of
\* failures, with the record of its scheduling.
retryVars == <<cpc, rtimer, fails, nretry, sched>>

\* _schedule_reconnect: nothing if a reconnect task runs, else a new task,
\* which begins with its sleep.
schedule_reconnect ==
    IF RetryRunning
    THEN /\ sched' = "noop"
         /\ UNCHANGED <<cpc, rtimer, fails, nretry>>
    ELSE /\ cpc' = [cpc EXCEPT !.retry = "sleep"]
         /\ rtimer' = reconnect_delay
         /\ fails' = 0
         /\ nretry' = nretry + 1
         /\ sched' = "spawned"

\* _listener_loop: the socket closes; the finally clause runs
\* _on_disconnected and _schedule_reconnect.
ListenerExit ==
    /\ listener /\ ~lold
    /\ listener' = FALSE
    /\ ws' = "closed"
    /\ state' = "disconnected"
    /\ pending' = FailedPending(pending)
    /\ sess' = FailedSess(sess, active)
    /\ IF should_reconnect THEN schedule_reconnect ELSE UNCHANGED <<retryVars>>
    /\ wire' = <<>>
    /\ srv' = LostTurns(srv)
    /\ pc' = LostWrites(pc)
    /\ vw' = LostVoiceWrite(vw)
    /\ rw' = "idle"
    /\ UNCHANGED <<should_reconnect, reconnect_delay, lold, orphans, dpc>>
    /\ UNCHANGED <<tts_done, lock, drained, result, prev, timer, openAt>>
    /\ UNCHANGED <<active, emitted, last, cacheVars, auxVars>>
\* _reconnect_loop: the sleep is over; _connect_once begins.
RetryWake ==
    /\ cpc.retry = "sleep"
    /\ rtimer = 0
    /\ state' = "connecting"
    /\ cpc' = [cpc EXCEPT !.retry = "opening"]
    /\ UNCHANGED <<ws, listener, should_reconnect, reconnect_delay, rtimer, fails, taskVars,
                   dpc>>
    /\ UNCHANGED <<textVars, voiceVars, envVars, last, cacheVars, auxVars>>
\* disconnect(), from "if self._ws" on: the socket is closed if there is one,
\* else the call finishes at once.
CloseOrFinish ==
    IF ws # "none"
    THEN /\ ws' = "closed"
         /\ wire' = <<>>
         /\ srv' = LostTurns(srv)
         /\ pc' = LostWrites(pc)
         /\ vw' = LostVoiceWrite(vw)
         /\ dpc' = "closing"
         /\ UNCHANGED <<state, pending, sess>>
    ELSE /\ state' = "disconnected"
         /\ pending' = FailedPending(pending)
         /\ sess' = FailedSess(sess, active)
         /\ dpc' = "idle"
         /\ UNCHANGED <<ws, wire, srv, pc, vw>>

\* A cancel that leaves the reconnect task running.
NotCancelled(c) == c

\* task.cancel() and the await of the task, for the reconnect task.
Cancelled(c) == [c EXCEPT !.retry = "none"]

\* disconnect(): the reconnect task and the read loop are cancelled and
\* awaited; the read loop's finally clause runs.
disconnect ==
    /\ dpc = "idle" /\ NoConnect
    /\ should_reconnect' = FALSE
    /\ nretry' = IF cpc.retry # "none" THEN nretry - 1 ELSE nretry
    /\ sched' = "none"
    /\ lold' = FALSE
    /\ IF cpc.retry # "none" \/ listener
       THEN /\ cpc' = Cancelled(cpc)
            /\ rtimer' = 0
            /\ listener' = FALSE
            /\ IF listener
               THEN /\ state' = "disconnected"
                    /\ pending' = FailedPending(pending)
                    /\ sess' = FailedSess(sess, active)
               ELSE UNCHANGED <<state, pending, sess>>
            /\ dpc' = "cancelled"
            /\ UNCHANGED <<ws, wire, srv, pc, vw>>
       ELSE /\ CloseOrFinish
            /\ UNCHANGED <<cpc, rtimer, listener>>
    /\ rw' = "idle"
    /\ UNCHANGED <<reconnect_delay, fails, orphans>>
    /\ UNCHANGED <<tts_done, lock, drained, result, prev, timer, openAt>>
    /\ UNCHANGED <<active, emitted, last, cacheVars, auxVars>>
\* disconnect(), resumed after the cancelled tasks ended.
DisconnectClose ==
    /\ dpc = "cancelled"
    /\ CloseOrFinish
    /\ UNCHANGED <<listener, should_reconnect, reconnect_delay, cpc, rtimer, fails, taskVars>>
    /\ UNCHANGED <<tts_done, lock, drained, result, prev, timer, openAt>>
    /\ UNCHANGED <<active, emitted, rw, last, cacheVars, auxVars>>
\* disconnect(), resumed after ws.close(): client.disconnect's last lines.
DisconnectFinish ==
    /\ dpc = "closing"
    /\ ws' = "none"
    /\ state' = "disconnected"
    /\ pending' = FailedPending(pending)
    /\ sess' = FailedSess(sess, active)
    /\ dpc' = "idle"
    /\ UNCHANGED <<listener, should_reconnect, reconnect_delay, cpc, rtimer, fails, taskVars>>
    /\ UNCHANGED <<tts_done, lock, pc, drained, result, prev, timer, openAt>>
    /\ UNCHANGED <<vw, active, envVars, last, cacheVars, auxVars>>
\* ------------------------------------------------------------------------
\* connect() on a client that is connected
\* ------------------------------------------------------------------------

\* connect() called while a read loop runs, up to the wait for the
\* transport.  Nothing in connect() or _connect_once looks at the connection
\* the client has.
connect_again ==
    /\ NoConnect /\ cpc.retry = "none" /\ dpc = "idle"
    /\ listener /\ orphans < MaxOrphans
    /\ should_reconnect' = TRUE
    /\ state' = "connecting"
    /\ cpc' = [cpc EXCEPT !.user = "opening"]
    /\ UNCHANGED <<ws, listener, reconnect_delay, rtimer, fails, taskVars, dpc>>
    /\ UNCHANGED <<textVars, voiceVars, envVars, last, cacheVars, auxVars>>
\* _listener_loop on a socket that _ws has replaced: that socket closes and
\* the finally clause runs.  held: _listener_task still names the loop.
StaleListenerExit(held) ==
    /\ IF held THEN listener /\ lold ELSE orphans > 0
    /\ listener' = IF held THEN FALSE ELSE listener
    /\ lold' = IF held THEN FALSE ELSE lold
    /\ orphans' = IF held THEN orphans ELSE orphans - 1
    /\ state' = "disconnected"
    /\ pending' = FailedPending(pending)
    /\ sess' = FailedSess(sess, active)
    /\ IF should_reconnect THEN schedule_reconnect ELSE UNCHANGED <<retryVars>>
    /\ UNCHANGED <<ws, should_reconnect, reconnect_delay, dpc>>
    /\ UNCHANGED <<tts_done, lock, pc, drained, result, prev, timer, openAt>>
    /\ UNCHANGED <<vw, active, envVars, last, cacheVars, auxVars>>
\* ------------------------------------------------------------------------
\* Failed attempts and the hello handshake, reply by reply
\* ------------------------------------------------------------------------

Min(a, b) == IF a < b THEN a ELSE b

\* What the server may send in answer to the client's hello: a hello with a
\* session id, a hello without one, a binary frame, text that is not JSON,
\* and a JSON message of another type.
HelloReplies ==
    {Msg("hello", 0, "sid"), Msg("hello", 0, ""), Msg("audio", 0, ""),
     Msg("garbage", 0, ""), Msg("stop", 0, "")}

\* A handshake that takes whatever the server sends.
AnyReply(m) == TRUE

\* A handshake that insists on a session id.
RequiresSession(m) == m.kind = "hello" /\ m.text # ""

\* _hello_handshake, from the reply on: a text frame that parses as JSON and
\* whose type is hello.
HelloAccepted(m) == m.kind \notin {"audio", "garbage"} /\ m.kind = "hello"

\* The reconnect task may fail once more.
MayFail(who) == who = "retry" => fails < MaxFail

\* A reconnect task that ends at its first failed attempt.
GivesUp(who) ==
    /\ state' = "disconnected"
    /\ cpc' = [cpc EXCEPT ![who] = IF who = "user" THEN "raised" ELSE "none"]
    /\ UNCHANGED <<reconnect_delay, rtimer, fails, taskVars>>

\* _connect_once raised: the client's except clause sets the state; connect()
\* raises to its caller, _reconnect_loop doubles its delay and sleeps again.
AttemptFailed(who) ==
    /\ state' = "disconnected"
    /\ UNCHANGED taskVars
    /\ IF who = "user"
       THEN /\ cpc' = [cpc EXCEPT !.user = "raised"]
            /\ UNCHANGED <<reconnect_delay, rtimer, fails>>
       ELSE /\ reconnect_delay' =
                   Min(reconnect_delay * RECONNECT_BACKOFF_FACTOR, RECONNECT_MAX_DELAY)
            /\ cpc' = [cpc EXCEPT !.retry = "sleep"]
            /\ rtimer' = reconnect_delay'
            /\ fails' = fails + 1

\* _connect_once: the transport does not open (refused, or the 30 s are over).
OpenFail(who) ==
    /\ cpc[who] = "opening"
    /\ MayFail(who)
    /\ AttemptFailed(who)
    /\ UNCHANGED <<ws, listener, should_reconnect, dpc>>
    /\ UNCHANGED <<textVars, voiceVars, envVars, last, cacheVars, auxVars>>
\* The server answers the client's hello.
ServerHello(m) ==
    /\ ws = "open"
    /\ wire = <<>>
    /\ \E who \in {"user", "retry"} : cpc[who] = "hello" /\ (m.kind = "hello" \/ MayFail(who))
    /\ wire' = <<m>>
    /\ UNCHANGED <<connVars, textVars, voiceVars, srv, emitted, rw, last, cacheVars, auxVars>>
\* _hello_handshake resumes with the server's reply; on success
\* _connect_once starts the read loop.
hello_handshake(who) ==
    /\ cpc[who] = "hello"
    /\ ws = "open"
    /\ wire # <<>>
    /\ wire' = Tail(wire)
    /\ IF HelloAccepted(Head(wire))
       THEN /\ state' = "authenticated"
            /\ AttemptDone(who)
            /\ UNCHANGED <<reconnect_delay, rtimer>>
       ELSE /\ AttemptFailed(who)
            /\ UNCHANGED listener
    /\ UNCHANGED <<ws, should_reconnect, dpc>>
    /\ UNCHANGED <<textVars, voiceVars, srv, emitted, rw, last, cacheVars, auxVars>>
\* _hello_handshake: no reply comes.  The 10 s of the wait_for are over, or
\* the server closed the socket and recv raised.
HelloTimeout(who, closed) ==
    /\ cpc[who] = "hello"
    /\ ws = "open"
    /\ wire = <<>>
    /\ MayFail(who)
    /\ AttemptFailed(who)
    /\ ws' = IF closed THEN "closed" ELSE ws
    /\ UNCHANGED <<listener, should_reconnect, dpc>>
    /\ UNCHANGED <<textVars, voiceVars, envVars, last, cacheVars, auxVars>>
\* ------------------------------------------------------------------------
\* send_text (client.py)
\* ------------------------------------------------------------------------

\* A lock that anyone can take at any time.
AlwaysFree == TRUE

\* async with self._send_lock: the lock can be taken.
LockFree == lock = 0

\* A send_text call ends: the lock is released.
Leave(c, outcome) ==
    /\ pc' = [pc EXCEPT ![c] = "done"]
    /\ result' = [result EXCEPT ![c] = outcome]
    /\ lock' = 0
    /\ prev' = c
    /\ timer' = 0

\* send_text from "self._tts_done.clear()" to "await self._ws.send(...)".
\* A send that raises leaves the function before its try block.
Create(c, how) ==
    /\ tts_done' = FALSE
    /\ pending' = Some(PendingRequest(c))
    /\ drained' = [drained EXCEPT ![c] = how]
    /\ openAt' = [openAt EXCEPT ![c] = OpenTurns]
    /\ IF ws = "open"
       THEN /\ pc' = [pc EXCEPT ![c] = "sending"]
            /\ lock' = c
            /\ timer' = 0
            /\ UNCHANGED <<result, prev>>
       ELSE Leave(c, Outcome("send_error", <<>>, <<>>))

\* A send_text that does not drain.
EnterNoDrain(c) == Create(c, "none")

\* send_text with the lock just taken: drain first if _tts_done is not set.
Enter(c) ==
    IF ~tts_done
    THEN /\ pc' = [pc EXCEPT ![c] = "drain"]
         /\ lock' = c
         /\ timer' = DrainTimeout
         /\ UNCHANGED <<tts_done, pending, drained, result, prev, openAt>>
    ELSE Create(c, "none")

\* send_text is called; the calls are numbered in the order they are made.
send_text(c) ==
    /\ pc[c] = "idle"
    /\ \A d \in Callers : d < c => pc[d] # "idle"
    /\ IF ~is_connected
       THEN /\ pc' = [pc EXCEPT ![c] = "done"]
            /\ result' = [result EXCEPT ![c] = Outcome("not_connected", <<>>, <<>>)]
            /\ UNCHANGED <<tts_done, lock, pending, drained, prev, timer, openAt>>
       ELSE IF ~LockFree
       THEN /\ pc' = [pc EXCEPT ![c] = "lockwait"]
            /\ UNCHANGED <<tts_done, lock, pending, drained, result, prev, timer, openAt>>
       ELSE Enter(c)
    /\ UNCHANGED <<connVars, voiceVars, envVars, last, cacheVars, auxVars>>
\* A caller waiting for the lock gets it.
Acquire(c) ==
    /\ pc[c] = "lockwait"
    /\ LockFree
    /\ Enter(c)
    /\ UNCHANGED <<connVars, voiceVars, envVars, last, cacheVars, auxVars>>
\* The drain wait ends because _tts_done is set.
DrainDone(c) ==
    /\ pc[c] = "drain"
    /\ tts_done
    /\ Create(c, "ok")
    /\ UNCHANGED <<connVars, voiceVars, envVars, last, cacheVars, auxVars>>
\* The drain wait ends by its timeout.
DrainExpired(c) ==
    /\ pc[c] = "drain"
    /\ ~tts_done
    /\ timer = 0
    /\ Create(c, "timeout")
    /\ UNCHANGED <<connVars, voiceVars, envVars, last, cacheVars, auxVars>>
\* ws.send returns: the server has the request.
SendDone(c) ==
    /\ pc[c] = "sending"
    /\ pc' = [pc EXCEPT ![c] = "wait"]
    /\ timer' = ResponseTimeout
    /\ srv' = [srv EXCEPT ![c] = "streaming"]
    /\ UNCHANGED <<tts_done, lock, pending, drained, result, prev, openAt>>
    /\ UNCHANGED <<connVars, voiceVars, wire, emitted, rw, last, cacheVars, auxVars>>
\* ws.send raises: the socket closed under it.
SendFail(c) ==
    /\ pc[c] = "sendfail"
    /\ Leave(c, Outcome("send_error", <<>>, <<>>))
    /\ UNCHANGED <<tts_done, pending, drained, openAt>>
    /\ UNCHANGED <<connVars, voiceVars, envVars, last, cacheVars, auxVars>>
\* The future has a result: the call yields once (asyncio.sleep(0)).
WaitResult(c) ==
    /\ pc[c] = "wait"
    /\ pending # None /\ pending[1].future.st = "result"
    /\ pc' = [pc EXCEPT ![c] = "yield"]
    /\ timer' = 0
    /\ UNCHANGED <<tts_done, lock, pending, drained, result, prev, openAt>>
    /\ UNCHANGED <<connVars, voiceVars, envVars, last, cacheVars, auxVars>>
\* The call returns (result_text, audio); the finally clause clears _pending.
Finish(c) ==
    /\ pc[c] = "yield"
    /\ Leave(c, Outcome("ok", pending[1].future.val,
                        IF pending # None THEN pending[1].audio_chunks ELSE <<>>))
    /\ pending' = None
    /\ UNCHANGED <<tts_done, drained, openAt>>
    /\ UNCHANGED <<connVars, voiceVars, envVars, last, cacheVars, auxVars>>
\* The future was rejected: the error is raised; finally clears _pending.
WaitError(c) ==
    /\ pc[c] = "wait"
    /\ pending # None /\ pending[1].future.st = "exception"
    /\ Leave(c, Outcome("connection_error", <<>>, <<>>))
    /\ pending' = None
    /\ UNCHANGED <<tts_done, drained, openAt>>
    /\ UNCHANGED <<connVars, voiceVars, envVars, last, cacheVars, auxVars>>
\* A timeout handler that leaves the slot as it is.
KeptPending(p) == p

\* except asyncio.TimeoutError: "self._pending = None".
Cleared(p) == None

\* The wait for the future times out: _pending is cleared and the call
\* waits for _tts_done.
WaitTimeout(c) ==
    /\ pc[c] = "wait"
    /\ timer = 0
    /\ pending # None /\ pending[1].future.st = "pending"
    /\ pending' = Cleared(pending)
    /\ IF tts_done
       THEN Leave(c, Outcome("timeout", <<>>, <<>>))
       ELSE /\ pc' = [pc EXCEPT ![c] = "postdrain"]
            /\ timer' = DrainTimeout
            /\ UNCHANGED <<lock, result, prev>>
    /\ UNCHANGED <<tts_done, drained, openAt>>
    /\ UNCHANGED <<connVars, voiceVars, envVars, last, cacheVars, auxVars>>
\* The wait for _tts_done ends, by the event or by its timeout; the
\* timeout error is raised.
PostDrainDone(c) ==
    /\ pc[c] = "postdrain"
    /\ tts_done \/ timer = 0
    /\ Leave(c, Outcome("timeout", <<>>, <<>>))
    /\ UNCHANGED <<tts_done, pending, drained, openAt>>
    /\ UNCHANGED <<connVars, voiceVars, envVars, last, cacheVars, auxVars>>
\* ------------------------------------------------------------------------
\* The read loop and its handlers (base_ws.py, client.py)
\* ------------------------------------------------------------------------

\* "async for message in self._ws": the message read next is the oldest.
ReadIndex(w) == 1

Without(w, i) == SubSeq(w, 1, i - 1) \o SubSeq(w, i + 1, Len(w))

\* _handle_binary_message on the pending request and on the sessions.
BinaryPending(p, m) ==
    IF p # None
    THEN Some([p[1] EXCEPT !.audio_chunks = Append(@, Payload(m))])
    ELSE p

BinarySess(ss, a, m) ==
    IF a # 0
    THEN [ss EXCEPT ![a].audio_chunks = Append(@, Payload(m))]
    ELSE ss

\* _handle_tts, state sentence_start.
KeepsFragment(m) == m.text # "" /\ m.text # "%"

SentencePending(p, m) ==
    IF KeepsFragment(m) /\ p # None
    THEN Some([p[1] EXCEPT !.response_chunks = Append(@, Payload(m))])
    ELSE p

SentenceSess(ss, a, m) ==
    IF KeepsFragment(m) /\ a # 0
    THEN [ss EXCEPT ![a].response_chunks = Append(@, Payload(m))]
    ELSE ss

\* _handle_tts, state stop.
StopPending(p) ==
    IF p # None /\ p[1].future.st = "pending"
    THEN Some([p[1] EXCEPT !.future = Future("result", Join(p[1].response_chunks))])
    ELSE p

StopSess(ss, a) ==
    IF a # 0 /\ ss[a].tts_future.st = "pending"
    THEN [ss EXCEPT ![a].tts_future = Future("result", Join(ss[a].response_chunks))]
    ELSE ss

\* _handle_stt
SttSess(ss, a, m) ==
    IF m.text # "" /\ a # 0
    THEN [ss EXCEPT ![a].stt_text = Some(m.text), ![a].stt_event = TRUE]
    ELSE ss

\* _handle_mcp: the handler's answer, if it has one, is sent.
McpSend(m, responds) ==
    IF m.kind = "mcp" /\ responds /\ ws # "none" THEN "tool_response" ELSE "idle"

\* One turn of the read loop: a message is read and dispatched.
Recv ==
    /\ listener
    /\ rw = "idle"
    /\ wire # <<>>
    /\ LET i == ReadIndex(wire)
           m == wire[i]
       IN /\ wire' = Without(wire, i)
          /\ pending' = CASE m.kind = "audio" -> BinaryPending(pending, m)
                          [] m.kind = "sentence_start" -> SentencePending(pending, m)
                          [] m.kind = "stop" -> StopPending(pending)
                          [] OTHER -> pending
          /\ sess' = CASE m.kind = "audio" -> BinarySess(sess, active, m)
                       [] m.kind = "sentence_start" -> SentenceSess(sess, active, m)
                       [] m.kind = "stop" -> StopSess(sess, active)
                       [] m.kind = "stt" -> SttSess(sess, active, m)
                       [] OTHER -> sess
          /\ tts_done' = IF m.kind = "stop" THEN TRUE ELSE tts_done
          /\ srv' = IF m.kind = "stop" /\ m.turn # 0
                    THEN [srv EXCEPT ![m.turn] = "done"] ELSE srv
          /\ \E responds \in (IF m.kind = "mcp" THEN BOOLEAN ELSE {FALSE}) :
                 rw' = McpSend(m, responds)
    /\ UNCHANGED <<lock, pc, drained, result, prev, timer, openAt>>
    /\ UNCHANGED <<connVars, vw, active, emitted, last, cacheVars, auxVars>>
\* The send of the tool response returns.
McpSendEnd ==
    /\ rw = "tool_response"
    /\ rw' = "idle"
    /\ UNCHANGED <<connVars, textVars, voiceVars, wire, srv, emitted, last, cacheVars, auxVars>>
\* ------------------------------------------------------------------------
\* The server
\* ------------------------------------------------------------------------

\* A fragment or an audio frame of a turn in progress.
ServerEmit(t, kind) ==
    /\ ws = "open"
    /\ srv[t] = "streaming"
    /\ Len(wire) < MaxWire
    /\ emitted < MaxEmit
    /\ wire' = Append(wire, Msg(kind, t, IF kind = "audio" THEN "" ELSE "text"))
    /\ emitted' = emitted + 1
    /\ UNCHANGED <<connVars, textVars, voiceVars, srv, rw, last, cacheVars, auxVars>>
\* The tts stop that ends a turn.
ServerStop(t) ==
    /\ ws = "open"
    /\ srv[t] = "streaming"
    /\ Len(wire) < MaxWire
    /\ wire' = Append(wire, Msg("stop", t, ""))
    /\ srv' = [srv EXCEPT ![t] = "stopped"]
    /\ UNCHANGED <<connVars, textVars, voiceVars, emitted, rw, last, cacheVars, auxVars>>
\* A recognition result, with or without text.
ServerStt(text) ==
    /\ ws = "open"
    /\ listener
    /\ Len(wire) < MaxWire
    /\ emitted < MaxEmit
    /\ wire' = Append(wire, Msg("stt", 0, text))
    /\ emitted' = emitted + 1
    /\ UNCHANGED <<connVars, textVars, voiceVars, srv, rw, last, cacheVars, auxVars>>
\* A tool call.
ServerMcp ==
    /\ ws = "open"
    /\ listener
    /\ Len(wire) < MaxWire
    /\ emitted < MaxEmit
    /\ wire' = Append(wire, Msg("mcp", 0, ""))
    /\ emitted' = emitted + 1
    /\ UNCHANGED <<connVars, textVars, voiceVars, srv, rw, last, cacheVars, auxVars>>
\* The answer to a voice turn: fragments, audio frames and the tts stop,
\* which belong to no text turn.
ServerTts(kind) ==
    /\ ws = "open"
    /\ listener
    /\ Len(wire) < MaxWire
    /\ emitted < MaxEmit
    /\ wire' = Append(wire, Msg(kind, 0, IF kind = "sentence_start" THEN "text" ELSE ""))
    /\ emitted' = emitted + 1
    /\ UNCHANGED <<connVars, textVars, voiceVars, srv, rw, last, cacheVars, auxVars>>
\* ------------------------------------------------------------------------
\* The voice path's calls (client.py)
\* ------------------------------------------------------------------------

\* An old session whose waiter is rejected with an error.
RejectOld(ss, old) ==
    IF old # 0 /\ ss[old].tts_future.st = "pending"
    THEN [ss EXCEPT ![old].tts_future = Future("exception", <<>>)]
    ELSE ss

\* A registration that leaves the old session's future pending.
LeaveOld(ss, old) == ss

\* register_voice_session: "if not old.tts_future.done(): old.tts_future.cancel()".
CancelOld(ss, old) ==
    IF old # 0 /\ ss[old].tts_future.st = "pending"
    THEN [ss EXCEPT ![old].tts_future = Future("cancelled", <<>>)]
    ELSE ss

\* The session object is created by the caller and then registered.
register_voice_session(id) ==
    /\ id = Len(sess) + 1
    /\ id <= MaxSess
    /\ sess' = Append(CancelOld(sess, active), VoicePipelineSession(id))
    /\ active' = id
    /\ last' = Op("register_voice_session", "", "", <<>>, None, None, id)
    /\ UNCHANGED <<connVars, textVars, vw, envVars, cacheVars, auxVars>>
\* An unregistration that clears the slot whatever the id.
ClearAlways(a, id) == 0

\* unregister_voice_session: compare the id, then clear.
Unregistered(a, id) == IF a # 0 /\ sess[a].session_id = id THEN 0 ELSE a

unregister_voice_session(id) ==
    /\ active' = Unregistered(active, id)
    /\ last' = Op("unregister_voice_session", "", "", <<>>, None, None, id)
    /\ UNCHANGED <<connVars, textVars, vw, sess, envVars, cacheVars, auxVars>>
\* send_audio_frame, start_listening, stop_listening: the check, then the
\* send begins.  A call that raises at the check leaves nothing behind.
VoiceSend(op) ==
    /\ vw = "idle"
    /\ is_connected /\ ws # "none"
    /\ vw' = IF ws = "open" THEN op ELSE "failed"
    /\ UNCHANGED <<connVars, textVars, active, sess, envVars, last, cacheVars, auxVars>>
\* The send returns, or raises because the socket closed under it.
VoiceSendEnd ==
    /\ vw \in VoiceSends \cup {"failed"}
    /\ vw' = "idle"
    /\ UNCHANGED <<connVars, textVars, active, sess, envVars, last, cacheVars, auxVars>>
\* ------------------------------------------------------------------------
\* Time
\* ------------------------------------------------------------------------

\* The lock holder is inside a wait_for; the reconnect task sleeps.
TimerRuns == lock # 0 /\ pc[lock] \in {"drain", "wait", "postdrain"}
RTimerRuns == cpc.retry = "sleep"

\* A wait that has no timeout: nothing of it elapses.
NoElapse(t) == t

\* What is left of a wait after the clock's step.
Elapse(t) == IF t > Quantum THEN t - Quantum ELSE 0

\* The clock advances.  A timeout that is due fires before the next step.
TickClient ==
    /\ TimerRuns \/ RTimerRuns
    /\ TimerRuns => timer > 0
    /\ RTimerRuns => rtimer > 0
    /\ timer' = IF TimerRuns THEN Elapse(timer) ELSE timer
    /\ rtimer' = IF RTimerRuns THEN Elapse(rtimer) ELSE rtimer
    /\ UNCHANGED <<state, ws, listener, should_reconnect, reconnect_delay, cpc, fails,
                   taskVars, dpc>>
    /\ UNCHANGED <<tts_done, lock, pending, pc, drained, result, prev, openAt>>
    /\ UNCHANGED <<voiceVars, envVars, last, cacheVars, auxVars>>
TickVoice == TickClient
TickWrites == TickClient
TickDrain == TickClient
TickSlot == TickClient
TickConn == TickClient
TickReentry == TickClient

\* ------------------------------------------------------------------------
\* _handle_tts on the texts of the fragments (client.py)
\* ------------------------------------------------------------------------

\* A text is the sequence of its characters.
Space == <<" ">>
Texts == {<<>>, <<"%", "a">>, <<"a", "%">>, <<"b", "c">>}
TtsStates == {"start", "sentence_start", "stop"}
MaxTts == 3       \* tts messages the read loop ever handles

\* A join that puts nothing between the fragments.
Concat(chunks) ==
    LET cat[i \in 0..Len(chunks)] == IF i = 0 THEN <<>> ELSE cat[i - 1] \o chunks[i]
    IN cat[Len(chunks)]

\* " ".join(chunks)
SpaceJoin(chunks) ==
    LET joined[i \in 0..Len(chunks)] ==
            IF i = 0 THEN <<>>
            ELSE IF i = 1 THEN chunks[1]
            ELSE joined[i - 1] \o Space \o chunks[i]
    IN joined[Len(chunks)]

\* "if text and not text.startswith('%')"
StartsWithControl(text) == Len(text) > 0 /\ text[1] = "%"
KeepsText(text) == text # <<>> /\ ~StartsWithControl(text)

\* One turn of the read loop on a tts message with the given state and text.
handle_tts(st, text) ==
    /\ listener
    /\ emitted < MaxTts
    /\ emitted' = emitted + 1
    /\ sess' = CASE st = "sentence_start" /\ KeepsText(text) /\ active # 0 ->
                        [sess EXCEPT ![active].response_chunks = Append(@, text)]
                 [] st = "stop" /\ active # 0 /\ sess[active].tts_future.st = "pending" ->
                        [sess EXCEPT ![active].tts_future =
                            Future("result", SpaceJoin(sess[active].response_chunks))]
                 [] OTHER -> sess
    /\ pending' = CASE st = "sentence_start" /\ KeepsText(text) /\ pending # None ->
                        Some([pending[1] EXCEPT !.response_chunks = Append(@, text)])
                    [] st = "stop" /\ pending # None /\ pending[1].future.st = "pending" ->
                        Some([pending[1] EXCEPT !.future =
                            Future("result", SpaceJoin(pending[1].response_chunks))])
                    [] OTHER -> pending
    /\ tts_done' = IF st = "stop" THEN TRUE ELSE tts_done
    /\ last' = Op("handle_tts", st, text, <<>>, None, None, 0)
    /\ UNCHANGED <<connVars, lock, pc, drained, result, prev, timer, openAt>>
    /\ UNCHANGED <<vw, active, wire, srv, rw, cacheVars, auxVars>>

(***************************************************************************)
(* PART III.  audio.py: binary frames                                      *)
(***************************************************************************)

\* Program constants: the size of struct ">BBH", the largest value of its H
\* field, the frame type of audio.
FRAME_HEADER_SIZE == 4
MaxU16 == 65535
BINARY_FRAME_TYPE_AUDIO == 0

\* Bounds of the frame model.
NearEdge == 1     \* payload lengths this close to 0, to 256 and to MaxU16
NFill == 2        \* contents tried for each payload length

\* Byte strings are sequences of 0..255.  The payloads handed to
\* pack_audio_frame: of each length near an edge, filled in NFill ways.
Fill(n, k) == [i \in 1..n |-> (k * i) % 256]
PayloadLens ==
    (0..NearEdge) \cup ((256 - NearEdge)..(256 + NearEdge))
        \cup ((MaxU16 - NearEdge)..(MaxU16 + 1))
Payloads == {Fill(n, k) : n \in PayloadLens, k \in 1..NFill}

\* The frames a server may send: strings shorter than a header, and headers
\* of every type and declared size over EdgeBytes followed by bodies of the
\* lengths near those sizes.
EdgeBytes == {0, 1, 255}
ShortFrames ==
    UNION {[1..n -> EdgeBytes] : n \in 0..(FRAME_HEADER_SIZE - 1)}
BodyLens == (0..NearEdge) \cup ((256 - NearEdge)..(256 + NearEdge))
HeaderFrames ==
    {<<t, r, hi, lo>> \o Fill(n, 1) :
        t \in EdgeBytes, r \in {0, 1}, hi \in EdgeBytes, lo \in EdgeBytes, n \in BodyLens}
RawFrames == ShortFrames \cup HeaderFrames

\* data[i:j]
Slice(data, i, j) == SubSeq(data, i + 1, Min(j, Len(data)))

\* struct.pack(">H", n): 16 bits, the high byte first.
BigEndian16(n) == <<n \div 256, n % 256>>
\* The low byte first.
LittleEndian16(n) == <<n % 256, n \div 256>>

\* A pack_audio_frame that writes the length low byte first.
pack_little_endian(opus_data) ==
    <<BINARY_FRAME_TYPE_AUDIO, 0>> \o LittleEndian16(Len(opus_data)) \o opus_data

\* pack_audio_frame, for a length that fits the H field (struct.pack raises
\* on a longer one).
pack_audio_frame(opus_data) ==
    <<BINARY_FRAME_TYPE_AUDIO, 0>> \o BigEndian16(Len(opus_data)) \o opus_data

\* An unpack_audio_frame that returns whatever follows the header.
unpack_unchecked(data) ==
    IF Len(data) < FRAME_HEADER_SIZE
    THEN None
    ELSE Some(Slice(data, FRAME_HEADER_SIZE,
                    FRAME_HEADER_SIZE + data[3] * 256 + data[4]))

\* unpack_audio_frame: None, or Some(payload).
unpack_audio_frame(data) ==
    IF Len(data) < FRAME_HEADER_SIZE
    THEN None
    ELSE LET frame_type == data[1]
             size == data[3] * 256 + data[4]
             payload == Slice(data, FRAME_HEADER_SIZE, FRAME_HEADER_SIZE + size)
         IN IF frame_type # BINARY_FRAME_TYPE_AUDIO
            THEN None
            ELSE IF Len(payload) # size THEN None ELSE Some(payload)

\* pack_audio_frame is applied to the payload.
PackFrame ==
    /\ aop = "payload"
    /\ IF Len(ain[1]) <= MaxU16
       THEN amid' = Some(pack_audio_frame(ain[1])) /\ aop' = "packed"
       ELSE amid' = amid /\ aop' = "pack_raised"
    /\ UNCHANGED <<ain, aout>>
    /\ UNCHANGED <<cacheVars, last, clientVars, turnVars>>

\* unpack_audio_frame is applied to the frame.
UnpackFrame ==
    /\ aop \in {"packed", "received"}
    /\ aout' = unpack_audio_frame(amid[1])
    /\ aop' = "unpacked"
    /\ UNCHANGED <<ain, amid>>
    /\ UNCHANGED <<cacheVars, last, clientVars, turnVars>>

\* A handler that gives the frame to the session only when no request is
\* pending.
AppendElseSession(ss, a, opus_payload) ==
    IF opus_payload # None /\ a # 0 /\ pending = None
    THEN [ss EXCEPT ![a].audio_chunks = Append(@, opus_payload[1])]
    ELSE ss

\* "if session is not None: session.audio_chunks.append(opus_payload)"
AppendToSession(ss, a, opus_payload) ==
    IF opus_payload # None /\ a # 0
    THEN [ss EXCEPT ![a].audio_chunks = Append(@, opus_payload[1])]
    ELSE ss

\* "if self._pending: self._pending.audio_chunks.append(opus_payload)"
AppendToPending(p, opus_payload) ==
    IF opus_payload # None /\ p # None
    THEN Some([p[1] EXCEPT !.audio_chunks = Append(@, opus_payload[1])])
    ELSE p

\* One turn of the read loop on a binary message: _handle_binary_message.
handle_binary_message ==
    /\ listener
    /\ aop \in {"packed", "received"}
    /\ LET opus_payload == unpack_audio_frame(amid[1])
       IN /\ aout' = opus_payload
          /\ sess' = AppendToSession(sess, active, opus_payload)
          /\ pending' = AppendToPending(pending, opus_payload)
    /\ aop' = "handled"
    /\ UNCHANGED <<ain, amid>>
    /\ UNCHANGED <<connVars, tts_done, lock, pc, drained, result, prev, timer, openAt>>
    /\ UNCHANGED <<vw, active, envVars, last, cacheVars, turnVars>>


\* ------------------------------------------------------------------------
\* The read loop, message by message (base_ws.py, client.py)
\* ------------------------------------------------------------------------

MaxRead == 3      \* messages the server ever sends to the read loop

\* A WebSocket message: a binary frame with its bytes, or a text frame.  Of a
\* text only what json.loads and the handlers look at is kept: whether it is
\* JSON, what kind of value it is, and the "type" and "state" members of an
\* object.
BinaryMessage(data) ==
    [bin |-> TRUE, data |-> data, json |-> "", type |-> None, state |-> None]
TextMessage(json, type, st) ==
    [bin |-> FALSE, data |-> <<>>, json |-> json, type |-> type, state |-> st]

\* What the server may send: frames cut short or of another type, text that
\* is not JSON, JSON arrays, numbers and nulls, objects without a type or of
\* an unknown type, and the tts messages of a turn.
Incoming ==
    {BinaryMessage(<<1>>), BinaryMessage(<<1, 0, 0, 1, 7>>),
     BinaryMessage(<<0, 0, 0, 2, 7>>), BinaryMessage(<<0, 0, 0, 1, 7>>)}
    \cup {TextMessage(j, None, None) : j \in {"invalid", "array", "number", "null", "object"}}
    \cup {TextMessage("object", Some("lamp"), None),
          TextMessage("object", Some("tts"), Some("start")),
          TextMessage("object", Some("tts"), Some("stop"))}

\* json.loads(message) raises JSONDecodeError.
JSONDecodeError(m) == m.json = "invalid"

\* A read loop in which every value has a get method.
AnyHasGet(m) == TRUE

\* data.get exists: only a dict has the method.
HasGet(m) == m.json = "object"

\* The server sends a message to the client's read loop.
ServerSends(m) ==
    /\ listener /\ ws = "open"
    /\ wire = <<>>
    /\ emitted < MaxRead
    /\ emitted' = emitted + 1
    /\ wire' = <<m>>
    /\ UNCHANGED <<connVars, textVars, voiceVars, srv, rw, last, cacheVars, auxVars>>

\* _listener_loop leaves its "async for" through "except Exception": the
\* finally clause runs _on_disconnected and _schedule_reconnect.  The socket
\* stays as it is.
ListenerRaises ==
    /\ listener' = FALSE
    /\ state' = "disconnected"
    /\ pending' = FailedPending(pending)
    /\ sess' = FailedSess(sess, active)
    /\ tts_done' = tts_done
    /\ IF should_reconnect THEN schedule_reconnect ELSE UNCHANGED <<retryVars>>

\* _handle_text_message on a dict: tts goes to _handle_tts, a type that is
\* unknown or missing is logged.
handle_text_message(m) ==
    /\ IF m.type = Some("tts") /\ m.state = Some("stop")
       THEN /\ tts_done' = TRUE
            /\ pending' = StopPending(pending)
            /\ sess' = StopSess(sess, active)
       ELSE UNCHANGED <<tts_done, pending, sess>>
    /\ UNCHANGED <<listener, state, retryVars>>

\* One turn of "async for message in self._ws".
listener_loop ==
    /\ listener /\ ~lold
    /\ wire # <<>>
    /\ wire' = Tail(wire)
    /\ LET message == Head(wire)
       IN IF message.bin
          THEN /\ sess' = AppendToSession(sess, active, unpack_audio_frame(message.data))
               /\ pending' = AppendToPending(pending, unpack_audio_frame(message.data))
               /\ UNCHANGED <<tts_done, listener, state, retryVars>>
          ELSE IF JSONDecodeError(message)
          THEN UNCHANGED <<tts_done, pending, sess, listener, state, retryVars>>
          ELSE IF HasGet(message)
          THEN handle_text_message(message)
          ELSE ListenerRaises
    /\ UNCHANGED <<ws, should_reconnect, reconnect_delay, lold, orphans, dpc>>
    /\ UNCHANGED <<lock, pc, drained, result, prev, timer, openAt>>
    /\ UNCHANGED <<vw, active, srv, emitted, rw, last, cacheVars, auxVars>>


\* ------------------------------------------------------------------------
\* The OGG/Opus container
\* ------------------------------------------------------------------------

\* Program constants: the stream serial 0x58495A48, the pre-skip, the samples
\* of a 20 ms frame, the length of a continued segment, and the largest
\* value of the header's one-byte segment count.
OGG_SERIAL == 1481202248
PRE_SKIP == 312
SAMPLES_PER_FRAME == 960
SEGMENT_SIZE == 255
MaxU8 == 255
OGG_HEADER_SIZE == 27

\* Bound of the container model: the packets of a sequence.
MaxPackets == 2

\* b"OggS", b"OpusHead", b"OpusTags", b"xiaozhi"
OggS == <<79, 103, 103, 83>>
OpusHead == <<79, 112, 117, 115, 72, 101, 97, 100>>
OpusTags == <<79, 112, 117, 115, 84, 97, 103, 115>>
Vendor == <<120, 105, 97, 111, 122, 104, 105>>

\* The lengths of the opus packets handed to _build_ogg_opus_stream: around
\* 0, around one and two full segments, and around the longest packet whose
\* segments a page can count.
PacketLens == {0, 1, 254, 255, 256, 510}
LongPacketLens == {SEGMENT_SIZE * MaxU8 - 1, SEGMENT_SIZE * MaxU8}
RECURSIVE SeqsUpTo(_, _)
SeqsUpTo(S, n) ==
    IF n = 0 THEN {<<>>}
    ELSE LET shorter == SeqsUpTo(S, n - 1)
         IN shorter \cup {Append(q, x) : q \in {s \in shorter : Len(s) = n - 1}, x \in S}
PacketLists ==
    {[i \in DOMAIN lens |-> Fill(lens[i], i)] : lens \in SeqsUpTo(PacketLens, MaxPackets)}
        \cup {<<Fill(n, 1)>> : n \in LongPacketLens}
SampleRates == {16000, 24000}

\* a ^ b on the n low bits.
RECURSIVE BitXor(_, _, _)
BitXor(a, b, n) ==
    IF n = 0 THEN 0
    ELSE ((a + b) % 2) + 2 * BitXor(a \div 2, b \div 2, n - 1)

\* The table of a ^ b for the bytes a of lo .. hi and every byte b: a ^ b is
\* element b + 1 of element a + 1.
RECURSIVE XorRow(_, _, _)
XorRow(a, lo, hi) ==
    IF lo = hi THEN <<BitXor(a, lo, 8)>>
    ELSE LET mid == (lo + hi) \div 2
         IN XorRow(a, lo, mid) \o XorRow(a, mid + 1, hi)
RECURSIVE XorRows(_, _)
XorRows(lo, hi) ==
    IF lo = hi THEN <<XorRow(lo, 0, 255)>>
    ELSE LET mid == (lo + hi) \div 2
         IN XorRows(lo, mid) \o XorRows(mid + 1, hi)
XorTable == XorRows(0, 255)
XorByte(a, b) == XorTable[a + 1][b + 1]

\* 32-bit words are four bytes, the high byte first.
Xor32(x, y) ==
    <<XorByte(x[1], y[1]), XorByte(x[2], y[2]), XorByte(x[3], y[3]), XorByte(x[4], y[4])>>
\* (x << 8) & 0xFFFFFFFF
Shl8(x) == <<x[2], x[3], x[4], 0>>
\* 0x04C11DB7
OGG_POLY == <<4, 193, 29, 183>>

\* The inner loop of the table: n rounds of "r << 1", xored with the
\* polynomial when bit 31 of r is set.
RECURSIVE CrcRounds(_, _)
CrcRounds(r, n) ==
    IF n = 0 THEN r
    ELSE CrcRounds(
             IF r[1] >= 128
             THEN <<XorTable[((r[1] * 2) % 256) + (r[2] \div 128) + 1][OGG_POLY[1] + 1],
                    XorTable[((r[2] * 2) % 256) + (r[3] \div 128) + 1][OGG_POLY[2] + 1],
                    XorTable[((r[3] * 2) % 256) + (r[4] \div 128) + 1][OGG_POLY[3] + 1],
                    XorTable[((r[4] * 2) % 256) + 1][OGG_POLY[4] + 1]>>
             ELSE <<((r[1] * 2) % 256) + (r[2] \div 128),
                    ((r[2] * 2) % 256) + (r[3] \div 128),
                    ((r[3] * 2) % 256) + (r[4] \div 128),
                    (r[4] * 2) % 256>>,
             n - 1)
\* The outer loop: the entries of lo .. hi (entry i is element i + 1 of the
\* table).
RECURSIVE CrcTable(_, _)
CrcTable(lo, hi) ==
    IF lo = hi THEN <<CrcRounds(<<lo, 0, 0, 0>>, 8)>>
    ELSE LET mid == (lo + hi) \div 2
         IN CrcTable(lo, mid) \o CrcTable(mid + 1, hi)
OGG_CRC_TABLE == CrcTable(0, 255)

\* _ogg_crc32_lookup, masked as _ogg_crc32 masks it.
ogg_crc32_lookup(crc, byte) ==
    Xor32(Shl8(crc), OGG_CRC_TABLE[XorByte(crc[1], byte) + 1])

\* _ogg_crc32: the loop over data.  crc_after[<<crc, lo, hi>>] is the word the
\* loop leaves after the bytes lo .. hi when it reaches them with crc.
ogg_crc32(data) ==
    LET crc_after[a \in Seq(0..255) \X Nat \X Nat] ==
            LET crc == a[1]
                lo == a[2]
                hi == a[3]
                mid == (lo + hi) \div 2
            IN IF lo > hi THEN crc
               ELSE IF lo = hi THEN ogg_crc32_lookup(crc, data[lo])
               ELSE crc_after[<<crc_after[<<crc, lo, mid>>], mid + 1, hi>>]
    IN crc_after[<<<<0, 0, 0, 0>>, 1, Len(data)>>]

\* struct.pack of a non-negative integer below 2^31 in w bytes, the low byte
\* first.
LittleEndian(n, w) ==
    [i \in 1..w |-> IF i > 4 THEN 0 ELSE (n \div (256 ^ (i - 1))) % 256]

\* b"".join(parts[lo..hi])
RECURSIVE JoinRange(_, _, _)
JoinRange(parts, lo, hi) ==
    IF lo > hi THEN <<>>
    ELSE IF lo = hi THEN parts[lo]
    ELSE JoinRange(parts, lo, (lo + hi) \div 2)
             \o JoinRange(parts, ((lo + hi) \div 2) + 1, hi)
\* b"".join(parts)
JoinBytes(parts) == JoinRange(parts, 1, Len(parts))

\* The segment table of one packet: 255 while 255 bytes or more remain, then
\* the rest, which may be 0.
Lacing(seg) ==
    [i \in 1..(Len(seg) \div SEGMENT_SIZE) |-> SEGMENT_SIZE] \o <<Len(seg) % SEGMENT_SIZE>>

\* The segment table of a page.
RECURSIVE SegmentTable(_)
SegmentTable(segments_data) ==
    IF segments_data = <<>> THEN <<>>
    ELSE Lacing(Head(segments_data)) \o SegmentTable(Tail(segments_data))

\* struct.pack raises when the segment count does not fit its byte.
PageRaises(segments_data) == Len(SegmentTable(segments_data)) > MaxU8

\* _build_ogg_page up to page_no_crc: the header with a checksum of 0, the
\* segment table and the body.
page_without_crc(serial, page_seq, granule, flags, segments_data) ==
    LET segment_table == SegmentTable(segments_data)
        body == JoinBytes(segments_data)
        num_segments == Len(segment_table)
        header == OggS \o <<0, flags>> \o LittleEndian(granule, 8)
                       \o LittleEndian(serial, 4) \o LittleEndian(page_seq, 4)
                       \o <<0, 0, 0, 0>> \o <<num_segments>>
    IN header \o segment_table \o body

\* _build_ogg_page, for a segment count that fits: the checksum is written
\* at offset 22, the low byte first.
build_ogg_page(serial, page_seq, granule, flags, segments_data) ==
    LET page_no_crc == page_without_crc(serial, page_seq, granule, flags, segments_data)
        crc == ogg_crc32(page_no_crc)
    IN SubSeq(page_no_crc, 1, 22) \o <<crc[4], crc[3], crc[2], crc[1]>>
           \o SubSeq(page_no_crc, 27, Len(page_no_crc))

\* The two header packets.
opus_head(sample_rate, channels) ==
    OpusHead \o <<1, channels>> \o LittleEndian(PRE_SKIP, 2)
             \o LittleEndian(sample_rate, 4) \o <<0, 0>> \o <<0>>
opus_tags == OpusTags \o LittleEndian(Len(Vendor), 4) \o Vendor \o LittleEndian(0, 4)

\* The audio pages of packets i .. last: one packet a page, the last flagged.
RECURSIVE AudioPages(_, _)
AudioPages(opus_packets, i) ==
    IF i > Len(opus_packets) THEN <<>>
    ELSE build_ogg_page(OGG_SERIAL, i + 1, SAMPLES_PER_FRAME * i,
                        IF i = Len(opus_packets) THEN 4 ELSE 0,
                        <<opus_packets[i]>>)
             \o AudioPages(opus_packets, i + 1)

\* _build_ogg_opus_stream raises when one of its pages does.
StreamRaises(opus_packets) ==
    \E i \in DOMAIN opus_packets : PageRaises(<<opus_packets[i]>>)

\* _build_ogg_opus_stream, when no page raises.
build_ogg_opus_stream(opus_packets, sample_rate, channels) ==
    build_ogg_page(OGG_SERIAL, 0, 0, 2, <<opus_head(sample_rate, channels)>>)
        \o build_ogg_page(OGG_SERIAL, 1, 0, 0, <<opus_tags>>)
        \o AudioPages(opus_packets, 1)

\* sum(s[lo..hi])
RECURSIVE SumRange(_, _, _)
SumRange(s, lo, hi) ==
    IF lo > hi THEN 0
    ELSE IF lo = hi THEN s[lo]
    ELSE SumRange(s, lo, (lo + hi) \div 2) + SumRange(s, ((lo + hi) \div 2) + 1, hi)
\* sum(segment_table)
Sum(s) == SumRange(s, 1, Len(s))

\* What the parser holds: the parts of the packet being assembled and the
\* packets yielded so far.
Parsed(parts, out) == [pending_parts |-> parts, yielded |-> out]

\* A packet is yielded when it is not empty ("if packet: yield packet").
Yield(out, packet) == IF packet # <<>> THEN Append(out, packet) ELSE out

\* The loop over the segment table of one page, entered with p.
\* walk[<<<<offset, parts, out>>, lo, hi>>] is what the loop holds after the
\* segments lo .. hi when it reaches them at offset with parts and out.
WalkSegments(segment_table, data, p) ==
    LET Bytes == Seq(Seq(0..255))
        walk[a \in (Nat \X Bytes \X Bytes) \X Nat \X Nat] ==
            LET offset == a[1][1]
                lo == a[2]
                hi == a[3]
                mid == (lo + hi) \div 2
                seg_len == segment_table[lo]
                parts == Append(a[1][2], Slice(data, offset, offset + seg_len))
            IN IF lo > hi THEN a[1]
               ELSE IF lo < hi THEN walk[<<walk[<<a[1], lo, mid>>], mid + 1, hi>>]
               ELSE IF seg_len < SEGMENT_SIZE
               THEN <<offset + seg_len, <<>>, Yield(a[1][3], JoinBytes(parts))>>
               ELSE <<offset + seg_len, parts, a[1][3]>>
        end == walk[<<<<0, p.pending_parts, p.yielded>>, 1, Len(segment_table)>>]
    IN Parsed(end[2], end[3])

\* A parser that ends without looking at pending_parts.
NoFlush(p) == p.yielded

\* After the loop: "if pending_parts: ... if packet: yield packet".
Flush(p) ==
    IF p.pending_parts # <<>> THEN Yield(p.yielded, JoinBytes(p.pending_parts)) ELSE p.yielded

\* The loop over the pages, pos bytes of stdout being consumed; readexactly
\* raises IncompleteReadError when fewer bytes remain than it is asked for.
RECURSIVE ReadPages(_, _, _, _)
ReadPages(stdout, pos, page_index, p) ==
    IF pos + 4 > Len(stdout) THEN Flush(p)
    ELSE IF Slice(stdout, pos, pos + 4) # OggS THEN Flush(p)
    ELSE IF pos + OGG_HEADER_SIZE > Len(stdout) THEN Flush(p)
    ELSE LET num_segments == stdout[pos + OGG_HEADER_SIZE]
             tab == pos + OGG_HEADER_SIZE
         IN IF tab + num_segments > Len(stdout) THEN Flush(p)
            ELSE LET segment_table == Slice(stdout, tab, tab + num_segments)
                     total_data == Sum(segment_table)
                     body == tab + num_segments
                 IN IF body + total_data > Len(stdout) THEN Flush(p)
                    ELSE IF page_index + 1 <= 2
                    THEN ReadPages(stdout, body + total_data, page_index + 1, p)
                    ELSE ReadPages(stdout, body + total_data, page_index + 1,
                                   WalkSegments(segment_table,
                                                Slice(stdout, body, body + total_data),
                                                p))

\* _parse_ogg_opus_packets: the packets it yields, in order.
parse_ogg_opus_packets(stdout) == ReadPages(stdout, 0, 0, Parsed(<<>>, <<>>))

\* The arguments of one call of _build_ogg_opus_stream.
StreamArgs(ps, r, c) == [opus_packets |-> ps, sample_rate |-> r, channels |-> c]

\* _build_ogg_opus_stream is applied to the packets.
BuildStream ==
    /\ aop = "packets"
    /\ IF StreamRaises(ain[1].opus_packets)
       THEN amid' = amid /\ aop' = "build_raised"
       ELSE /\ amid' = Some(build_ogg_opus_stream(ain[1].opus_packets,
                                                  ain[1].sample_rate, ain[1].channels))
            /\ aop' = "built"
    /\ UNCHANGED <<ain, aout>>
    /\ UNCHANGED <<cacheVars, last, clientVars, turnVars>>

\* _parse_ogg_opus_packets is applied to the stream.
ParseStream ==
    /\ aop = "built"
    /\ aout' = Some(parse_ogg_opus_packets(amid[1]))
    /\ aop' = "parsed"
    /\ UNCHANGED <<ain, amid>>
    /\ UNCHANGED <<cacheVars, last, clientVars, turnVars>>


\* ------------------------------------------------------------------------
\* Streams that end inside a packet
\* ------------------------------------------------------------------------

MaxCont == 2      \* segments of 255 bytes of the packet the stream ends in

\* A page as the encoder writes it, with the segment table given: a packet
\* may go on in the next page.  The parser does not read the checksum.
raw_page(page_seq, segment_table, body) ==
    OggS \o <<0, 0>> \o LittleEndian(0, 8) \o LittleEndian(OGG_SERIAL, 4)
         \o LittleEndian(page_seq, 4) \o <<0, 0, 0, 0>> \o <<Len(segment_table)>>
         \o segment_table \o body

\* How the input ends after a page whose last segment has 255 bytes: at the
\* page's end, with bytes that are not "OggS", inside the next page's
\* header, inside the next page's body, or with a page that ends the packet.
Endings == {"eof", "sync_lost", "cut_header", "cut_body", "terminated"}

EndOfStream(ending, k) ==
    CASE ending = "eof" -> <<>>
      [] ending = "sync_lost" -> <<0, 0, 0, 0>>
      [] ending = "cut_header" -> OggS \o <<0, 0>>
      [] ending = "cut_body" -> SubSeq(raw_page(3, <<2>>, Fill(2, k)), 1, OGG_HEADER_SIZE + 2)
      [] OTHER -> raw_page(3, <<2>>, Fill(2, k))

\* The stream of one whole packet followed by a packet of n segments of 255
\* bytes, and its end; with it the packets that are whole in the stream and
\* the bytes of the packet that is not.
TailArgs(first, n, k, ending) ==
    LET begun == Fill(SEGMENT_SIZE * n, k)
    IN [opus_packets |-> IF ending = "terminated"
                         THEN <<first, begun \o Fill(2, k)>> ELSE <<first>>,
        partial |-> IF ending = "terminated" THEN <<>> ELSE begun,
        stream |-> build_ogg_opus_stream(<<first>>, 16000, 1)
                       \o raw_page(2, [i \in 1..n |-> SEGMENT_SIZE], begun)
                       \o EndOfStream(ending, k)]


(***************************************************************************)
(* PART IV.  stt.py / conversation.py / tts.py: a voice turn                *)
(*                                                                         *)
(* Home Assistant runs a voice turn in three stages: the recognition path  *)
(* (XiaozhiSTTEntity.async_process_audio_stream) registers a session,      *)
(* streams the audio, waits for the recognized text, creates the turn's    *)
(* collector and starts the background collection task                     *)
(* (_collect_pipeline_results); the conversation path                      *)
(* (XiaozhiConversationEntity._async_handle_message) is then called with   *)
(* the recognized text; the synthesis path                                 *)
(* (XiaozhiTTSEntity.async_get_tts_audio) is called with the response the  *)
(* conversation path returned.  Turn t uses session t, and the records of  *)
(* the turn hold what its calls returned.                                  *)
(*                                                                         *)
(* The tasks run on one event loop.  A call of the cache takes an          *)
(* uncontended asyncio.Lock, which does not suspend, so a task's           *)
(* consecutive cache calls are one step.  The loop runs what is ready in   *)
(* the order it became ready, and the recognition path waits for the       *)
(* encoder subprocess (audio.py, pcm_to_opus_frames) between registering   *)
(* its session and creating its collector: the tasks that were ready when  *)
(* it registered have run by the time its audio has been sent.             *)
(***************************************************************************)
STT_RESULT_TIMEOUT == 30
PIPELINE_COLLECT_TIMEOUT == 60
TurnStep == 30         \* seconds by which the turn's clock advances

\* Two voice turns, one after the other or the second overtaking the first.
Turns == {1, 2}
\* What the server recognizes, and what a user types beside the voice turns.
SpokenTexts == {"turn on lights"}
TypedTexts == Keys \ SpokenTexts

\* The recognition path of a turn: its position, the deadline of its wait for
\* the recognized text, and the collector it created (0 for none).
Recognition(st, deadline, c) == [st |-> st, deadline |-> deadline, coll |-> c]
\* The background task of a turn: its position, the text it was started
\* with, the deadline of its wait, the collector its cache call popped (0
\* for none) and what it delivered: None or Some of the response and audio.
Collection(st, text, deadline, popped, delivered) ==
    [st |-> st, text |-> text, deadline |-> deadline, popped |-> popped,
     delivered |-> delivered]
NoCollection == Collection("none", "", 0, 0, None)
\* The conversation path of a turn: its position, the collector it waits
\* on, the deadline of the wait and the response it obtained.
Conversation(st, held, deadline, response) ==
    [st |-> st, held |-> held, deadline |-> deadline, response |-> response]
\* The synthesis path of a turn: its position and the audio it obtained.
Synthesis(st, audio) == [st |-> st, audio |-> audio]

InitTurn ==
    /\ rec = [t \in Turns |-> Recognition("idle", 0, 0)]
    /\ bg = [t \in Turns |-> NoCollection]
    /\ conv = [t \in Turns |-> Conversation("idle", 0, 0, None)]
    /\ syn = [t \in Turns |-> Synthesis("idle", None)]
    /\ ans = [t \in Turns |-> "none"]

\* A background task that can run: its future is done or its wait is over.
Runnable(t) ==
    /\ bg[t].st = "waiting"
    /\ sess[t].tts_future.st # "pending" \/ now >= bg[t].deadline
\* A task of a turn is ready to run: the recognition path whose stt_event is
\* set, a background task that can run, a conversation path whose collector
\* is ready.
TaskReady ==
    \E t \in Turns :
        \/ rec[t].st = "await_stt" /\ sess[t].stt_event
        \/ Runnable(t)
        \/ conv[t].st = "waiting" /\ coll[conv[t].held].ready
\* The waits whose timeout has not fired.
RecognitionWaits(t) == rec[t].st = "await_stt" /\ ~sess[t].stt_event
CollectionWaits(t) == bg[t].st = "waiting" /\ sess[t].tts_future.st = "pending"
ConversationWaits(t) == conv[t].st = "waiting" /\ ~coll[conv[t].held].ready

\* ------------------------------------------------------------------------
\* The recognition path (stt.py)
\* ------------------------------------------------------------------------

\* async_process_audio_stream up to the registration of its session.  A call
\* on a client that is not connected returns an error and leaves nothing.
StartTurn(t) ==
    /\ rec[t].st = "idle"
    /\ t = Len(sess) + 1
    /\ is_connected
    /\ sess' = Append(CancelOld(sess, active), VoicePipelineSession(t))
    /\ active' = t
    /\ rec' = [rec EXCEPT ![t] = Recognition("streaming", 0, 0)]
    /\ UNCHANGED <<connVars, textVars, vw, envVars, cacheVars, last, audioVars, bg, conv, syn, ans>>
\* start_listening, the audio frames and stop_listening: the sends succeed,
\* after the tasks that were ready have run, and the wait for the
\* recognized text begins, or a send raises and the
\* handler of "except Exception" unregisters the session and cancels its
\* future.
StreamAudio(t) ==
    /\ rec[t].st = "streaming"
    /\ IF is_connected /\ ws = "open"
       THEN /\ ~TaskReady
            /\ rec' = [rec EXCEPT ![t] = Recognition("await_stt", now + STT_RESULT_TIMEOUT, 0)]
            /\ ans' = [ans EXCEPT ![t] = "heard"]
            /\ UNCHANGED <<active, sess>>
       ELSE /\ rec' = [rec EXCEPT ![t] = Recognition("error", 0, 0)]
            /\ active' = Unregistered(active, t)
            /\ sess' = CancelOld(sess, t)
            /\ UNCHANGED ans
    /\ UNCHANGED <<connVars, textVars, vw, envVars, cacheVars, last, audioVars, bg, conv, syn>>
\* The wait for the recognized text times out.
RecognitionTimeout(t) ==
    /\ RecognitionWaits(t)
    /\ now >= rec[t].deadline
    /\ rec' = [rec EXCEPT ![t] = Recognition("error", 0, 0)]
    /\ active' = Unregistered(active, t)
    /\ UNCHANGED <<connVars, textVars, vw, sess, envVars, cacheVars, last, audioVars, bg, conv, syn, ans>>
\* stt_event is set.  Without a text the session is unregistered and the
\* path returns an error; with a text the collector is created
\* (create_collector sweeps first), the background task is started and the
\* path returns the text.
RecognitionResumes(t) ==
    /\ rec[t].st = "await_stt"
    /\ sess[t].stt_event
    /\ IF sess[t].stt_text = None
       THEN /\ rec' = [rec EXCEPT ![t] = Recognition("error", 0, 0)]
            /\ active' = Unregistered(active, t)
            /\ UNCHANGED <<cache, response_index, collectors, coll, last_cleanup, evicted, bg>>
       ELSE LET k == sess[t].stt_text[1]
                s == Swept
                id == Len(coll) + 1
            IN /\ Commit([s EXCEPT !.coll = Append(s.coll, PipelineResultCollector(k)),
                                   !.collectors[k] = Append(s.collectors[k], id)])
               /\ rec' = [rec EXCEPT ![t] = Recognition("text", 0, id)]
               /\ bg' = [bg EXCEPT ![t] = Collection("waiting", k,
                                              now + PIPELINE_COLLECT_TIMEOUT, 0, None)]
               /\ UNCHANGED active
    /\ UNCHANGED <<now, nstores, last, connVars, textVars, vw, sess, envVars, audioVars, conv, syn, ans>>
\* The call of async_process_audio_stream is cancelled while it awaits a
\* send or the recognized text: asyncio.CancelledError is no Exception, the
\* handler of "except Exception" does not run and the call ends as it is.
CancelRecognition(t) ==
    /\ rec[t].st \in {"streaming", "await_stt"}
    /\ rec' = [rec EXCEPT ![t] = Recognition("cancelled", 0, 0)]
    /\ UNCHANGED <<cacheVars, last, clientVars, audioVars, bg, conv, syn, ans>>
\* ------------------------------------------------------------------------
\* The background collection task (stt.py)
\* ------------------------------------------------------------------------

\* wait_for(session.tts_future) ends: with the response, and the collector is
\* completed with it and the session's audio; or cancelled, failed or timed
\* out (wait_for then cancels the future), and the collector is failed.  The
\* session is unregistered in either case.
CollectResults(t) ==
    /\ Runnable(t)
    /\ LET k == bg[t].text
           f == sess[t].tts_future
           popped == IF collectors[k] # <<>> THEN Head(collectors[k]) ELSE 0
       IN IF f.st = "result"
          THEN LET r == f.val
                   ch == sess[t].audio_chunks
                   s == PopOldest(Unswept, k, complete(Oldest(k), r, ch))
               IN /\ Commit(store_locked(s, k, r, ch))
                  /\ nstores' = nstores + 1
                  /\ bg' = [bg EXCEPT ![t] = Collection("done", k, 0, popped,
                                                 Some(<<r, ch>>))]
                  /\ UNCHANGED sess
          ELSE LET s == PopOldest(Unswept, k, fail(Oldest(k)))
                   keys_to_remove ==
                       {r \in DOMAIN s.response_index : s.response_index[r] = k}
               IN /\ Commit([s EXCEPT !.response_index =
                                         DictPop(s.response_index, keys_to_remove)])
                  /\ bg' = [bg EXCEPT ![t] = Collection("done", k, 0, popped, None)]
                  /\ sess' = CancelOld(sess, t)
                  /\ UNCHANGED nstores
    /\ active' = Unregistered(active, t)
    /\ UNCHANGED <<now, last, connVars, textVars, vw, envVars, audioVars, rec, conv, syn, ans>>
\* ------------------------------------------------------------------------
\* The conversation path (conversation.py)
\* ------------------------------------------------------------------------

\* _async_handle_message with the text the recognition path returned:
\* get_collector, and without a collector get_by_input.  Without either the
\* text is sent to the server as a typed text.
ConversationLookup(t) ==
    /\ rec[t].st = "text"
    /\ conv[t].st = "idle"
    /\ LET k == bg[t].text
       IN IF collectors[k] # <<>>
          THEN /\ conv' = [conv EXCEPT ![t] = Conversation("waiting", Head(collectors[k]),
                                                  now + PIPELINE_COLLECT_TIMEOUT, None)]
               /\ UNCHANGED <<cache, response_index, collectors, coll, last_cleanup, evicted>>
          ELSE LET s == Swept
                   entry == IF k \in DOMAIN s.cache THEN Some(s.cache[k]) ELSE None
               IN /\ Commit([s EXCEPT
                         !.cache = DictPop(s.cache, {k}),
                         !.response_index =
                             IF entry # None
                             THEN DictPop(s.response_index, {entry[1].response_text})
                             ELSE s.response_index])
                  /\ conv' = [conv EXCEPT ![t] =
                                 IF entry # None
                                 THEN Conversation("done", 0, 0, Some(entry[1].response_text))
                                 ELSE Conversation("text_mode", 0, 0, None)]
    /\ UNCHANGED <<now, nstores, last, clientVars, audioVars, rec, bg, syn, ans>>
\* collector.wait returns: the collector is ready or the wait timed out.  It
\* returns whether response_text is set; when it is not, the handler reads
\* collector.failed, which PipelineResultCollector does not have, and raises.
ConversationWakes(t) ==
    /\ conv[t].st = "waiting"
    /\ coll[conv[t].held].ready \/ now >= conv[t].deadline
    /\ LET c == coll[conv[t].held]
       IN conv' = [conv EXCEPT ![t] =
                      IF c.ready /\ c.response_text # None
                      THEN Conversation("done", conv[t].held, 0, c.response_text)
                      ELSE Conversation("raised", conv[t].held, 0, None)]
    /\ UNCHANGED <<cacheVars, last, clientVars, audioVars, rec, bg, syn, ans>>
\* ------------------------------------------------------------------------
\* The synthesis path (tts.py)
\* ------------------------------------------------------------------------

\* async_get_tts_audio with the response the conversation path returned:
\* get_collector(message) finds nothing, a response being no recognized text,
\* and get_audio_by_response(message) is called.
SynthesisLookup(t) ==
    /\ conv[t].st = "done"
    /\ syn[t].st = "idle"
    /\ LET r == conv[t].response[1]
           s == Swept
           stt_text == IF r \in DOMAIN s.response_index
                       THEN Some(s.response_index[r]) ELSE None
           entry == IF stt_text # None /\ stt_text[1] \in DOMAIN s.cache
                    THEN Some(s.cache[stt_text[1]]) ELSE None
           audio == IF entry # None THEN Some(entry[1].audio_chunks) ELSE None
       IN /\ Commit([s EXCEPT
                 !.response_index = DictPop(s.response_index, {r}),
                 !.cache = IF stt_text # None
                           THEN DictPop(s.cache, {stt_text[1]}) ELSE s.cache])
          /\ syn' = [syn EXCEPT ![t] = Synthesis("done", audio)]
    /\ UNCHANGED <<now, nstores, last, clientVars, audioVars, rec, bg, conv, ans>>
\* ------------------------------------------------------------------------
\* The turn's environment
\* ------------------------------------------------------------------------

\* The server answers a voice turn it has heard: the recognized text, then
\* audio frames and fragments of the response, then the tts stop.  It may
\* leave out any of them.  The messages name no turn, and the read loop
\* reads each before the next is sent.
AnswerKinds == <<"stt", "audio", "sentence_start", "stop">>
AnswerRank(p) ==
    CASE p = "heard" -> 0 [] p = "stt" -> 1 [] p = "audio" -> 2
      [] p = "sentence_start" -> 3 [] p = "stop" -> 4 [] OTHER -> 5
ServerAnswers(t, i) ==
    /\ ws = "open"
    /\ listener
    /\ wire = <<>>
    /\ AnswerRank(ans[t]) < i
    /\ i > 1 => AnswerRank(ans[t]) >= 1
    /\ wire' = Append(wire, Msg(AnswerKinds[i], 0,
                                CASE i = 1 -> CHOOSE k \in SpokenTexts : TRUE
                                  [] i = 3 -> "text"
                                  [] OTHER -> ""))
    /\ ans' = [ans EXCEPT ![t] = AnswerKinds[i]]
    /\ UNCHANGED <<connVars, textVars, voiceVars, srv, emitted, rw, last, cacheVars>>
    /\ UNCHANGED <<audioVars, rec, bg, conv, syn>>
\* The conversation path called with a typed text, for which there is no
\* collector and no entry: get_by_input sweeps.  A lookup that finds nothing
\* to remove is left out.
TypedLookup(k) ==
    /\ Swept.evicted # Unswept.evicted
    /\ Commit(Swept)
    /\ UNCHANGED <<now, nstores, last, clientVars, auxVars>>
\* The clock advances while a wait is running.  A timeout that is due fires
\* before the next step, and so does what is busy: a step of the clock is
\* long.
TurnWaits ==
    \E t \in Turns : RecognitionWaits(t) \/ CollectionWaits(t) \/ ConversationWaits(t)
\* A message to read, a task that is ready, audio being sent.
Busy ==
    \/ wire # <<>> /\ listener
    \/ TaskReady
    \/ \E t \in Turns : rec[t].st = "streaming"
TimeMayPass ==
    /\ TurnWaits
    /\ ~Busy
    /\ \A t \in Turns :
          /\ RecognitionWaits(t) => now < rec[t].deadline
          /\ CollectionWaits(t) => now < bg[t].deadline
          /\ ConversationWaits(t) => now < conv[t].deadline
\* The stages that follow the recognition are called without delay.
StageDue ==
    \E t \in Turns :
        \/ rec[t].st = "text" /\ conv[t].st = "idle"
        \/ conv[t].st = "done" /\ syn[t].st = "idle"
TickTurn ==
    /\ TimeMayPass
    /\ ~StageDue
    /\ now' = now + TurnStep
    /\ UNCHANGED <<cache, response_index, collectors, coll, last_cleanup, nstores, evicted>>
    /\ UNCHANGED <<last, clientVars, auxVars>>
\* The clock of the turns whose later stages are not called.
TickCollect ==
    /\ TimeMayPass
    /\ now' = now + TurnStep
    /\ UNCHANGED <<cache, response_index, collectors, coll, last_cleanup, nstores, evicted>>
    /\ UNCHANGED <<last, clientVars, auxVars>>

\* ------------------------------------------------------------------------
\* The specifications
\* ------------------------------------------------------------------------

\* XiaozhiWebSocketClient.__init__
InitClient ==
    /\ state = "disconnected"
    /\ ws = "none"
    /\ listener = FALSE
    /\ should_reconnect = FALSE
    /\ reconnect_delay = RECONNECT_MIN_DELAY
    /\ cpc = [user |-> "idle", retry |-> "none"]
    /\ rtimer = 0
    /\ fails = 0
    /\ lold = FALSE
    /\ orphans = 0
    /\ nretry = 0
    /\ sched = "none"
    /\ dpc = "idle"
    /\ tts_done = TRUE
    /\ lock = 0
    /\ pending = None
    /\ pc = [c \in Callers |-> "idle"]
    /\ drained = [c \in Callers |-> "none"]
    /\ result = [c \in Callers |-> NoOutcome]
    /\ prev = 0
    /\ timer = 0
    /\ vw = "idle"
    /\ active = 0
    /\ sess = <<>>
    /\ wire = <<>>
    /\ srv = [t \in Callers |-> "idle"]
    /\ emitted = 0
    /\ rw = "idle"
    /\ openAt = [c \in Callers |-> {}]

\* No audio function has been applied.
InitAudio == ain = None /\ amid = None /\ aout = None /\ aop = "none"

Init == InitCache /\ InitClient /\ last = NoOp /\ InitAudio /\ InitTurn

Connection ==
    \/ connect
    \/ \E who \in {"user", "retry"} : OpenOk(who)
    \/ \E who \in {"user", "retry"} : HelloOk(who)
    \/ ListenerExit
    \/ RetryWake

Disconnection ==
    \/ disconnect
    \/ DisconnectClose
    \/ DisconnectFinish

TextCalls ==
    \/ \E c \in Callers : send_text(c)
    \/ \E c \in Callers : Acquire(c)
    \/ \E c \in Callers : DrainDone(c)
    \/ \E c \in Callers : DrainExpired(c)
    \/ \E c \in Callers : SendDone(c)
    \/ \E c \in Callers : SendFail(c)
    \/ \E c \in Callers : WaitResult(c)
    \/ \E c \in Callers : Finish(c)
    \/ \E c \in Callers : WaitError(c)
    \/ \E c \in Callers : WaitTimeout(c)
    \/ \E c \in Callers : PostDrainDone(c)

\* The send_text calls of the first NPair callers.
PairCalls ==
    \/ \E c \in Pair : send_text(c)
    \/ \E c \in Pair : Acquire(c)
    \/ \E c \in Pair : DrainDone(c)
    \/ \E c \in Pair : DrainExpired(c)
    \/ \E c \in Pair : SendDone(c)
    \/ \E c \in Pair : SendFail(c)
    \/ \E c \in Pair : WaitResult(c)
    \/ \E c \in Pair : Finish(c)
    \/ \E c \in Pair : WaitError(c)
    \/ \E c \in Pair : WaitTimeout(c)
    \/ \E c \in Pair : PostDrainDone(c)

\* A server that ends each text turn without fragments or audio.
Stops == \E t \in Callers : ServerStop(t)

Server ==
    \/ \E t \in Callers, kind \in {"sentence_start", "audio"} : ServerEmit(t, kind)
    \/ \E t \in Callers : ServerStop(t)

VoiceSessions ==
    \/ \E id \in 1..MaxSess : register_voice_session(id)
    \/ \E id \in 1..MaxSess : unregister_voice_session(id)

VoiceServer ==
    \/ \E text \in {"", "hello"} : ServerStt(text)
    \/ \E kind \in {"sentence_start", "audio", "stop"} : ServerTts(kind)

\* One send_text call, made while the voice path runs.
TextCaller == CHOOSE c \in Callers : TRUE

OneTextCall ==
    \/ send_text(TextCaller)
    \/ SendDone(TextCaller)
    \/ SendFail(TextCaller)
    \/ WaitResult(TextCaller)
    \/ Finish(TextCaller)
    \/ WaitError(TextCaller)
    \/ WaitTimeout(TextCaller)
    \/ PostDrainDone(TextCaller)

VoiceWrites ==
    \/ \E op \in VoiceSends : VoiceSend(op)
    \/ VoiceSendEnd

ToolCalls ==
    \/ ServerMcp
    \/ McpSendEnd

\* The text path: send_text callers against the server, the read loop, the
\* connection and the clock.
NextClient ==
    \/ Connection
    \/ Disconnection
    \/ TextCalls
    \/ Recv
    \/ Server
    \/ TickClient

\* The text path with the first NPair callers.
NextDrain ==
    \/ Connection
    \/ Disconnection
    \/ PairCalls
    \/ Recv
    \/ Server
    \/ TickDrain

\* The writers of the socket: the send_text callers, the voice path's sends
\* and the read loop's tool responses.
NextWrites ==
    \/ Connection
    \/ PairCalls
    \/ Recv
    \/ Stops
    \/ VoiceWrites
    \/ ToolCalls
    \/ TickWrites

\* The voice path: sessions registered and unregistered while the server
\* answers voice turns, beside one send_text call.
NextVoice ==
    \/ Connection
    \/ Disconnection
    \/ OneTextCall
    \/ Recv
    \/ VoiceSessions
    \/ VoiceServer
    \/ TickVoice

\* The voice-session slot alone: sessions registered and unregistered while
\* the server answers voice turns and the connection comes and goes.
NextSlot ==
    \/ Connection
    \/ Disconnection
    \/ Recv
    \/ VoiceSessions
    \/ VoiceServer
    \/ TickSlot

\* The connection alone: connect(), the attempts of the reconnect task with
\* their failures, the handshake reply by reply, the read loop's end and
\* disconnect().
Attempts ==
    \/ connect
    \/ \E who \in {"user", "retry"} : OpenOk(who)
    \/ \E who \in {"user", "retry"} : OpenFail(who)
    \/ \E m \in HelloReplies : ServerHello(m)
    \/ \E who \in {"user", "retry"} : hello_handshake(who)
    \/ \E who \in {"user", "retry"}, closed \in BOOLEAN : HelloTimeout(who, closed)
    \/ ListenerExit
    \/ RetryWake

NextConn ==
    \/ Attempts
    \/ Disconnection
    \/ TickConn

\* The connection of a client whose connect() is called again while it is
\* connected.  No read loop ends while a connect() call is in progress, and
\* connect() is not called while a reconnect task runs.
ReadLoopEnds == NoConnect /\ ListenerExit
StaleReadLoopEnds(held) == NoConnect /\ StaleListenerExit(held)

NextReentry ==
    \/ connect
    \/ connect_again
    \/ \E who \in {"user", "retry"} : OpenOk(who)
    \/ \E who \in {"user", "retry"} : OpenFail(who)
    \/ \E m \in HelloReplies : ServerHello(m)
    \/ \E who \in {"user", "retry"} : hello_handshake(who)
    \/ \E who \in {"user", "retry"}, closed \in BOOLEAN : HelloTimeout(who, closed)
    \/ ReadLoopEnds
    \/ \E held \in BOOLEAN : StaleReadLoopEnds(held)
    \/ RetryWake
    \/ Disconnection
    \/ TickReentry

\* A payload to pack, or a frame that the server sent.
InitFrame ==
    /\ InitCache /\ InitClient /\ last = NoOp /\ InitTurn
    /\ aout = None
    /\ \/ \E p \in Payloads : ain = Some(p) /\ amid = None /\ aop = "payload"
       \/ \E d \in RawFrames : ain = None /\ amid = Some(d) /\ aop = "received"

\* The frame functions, beside a client that connects, registers a voice
\* session and sends a text: the buffers the read loop appends to.
NextFrame ==
    \/ PackFrame
    \/ UnpackFrame
    \/ handle_binary_message
    \/ connect
    \/ OpenOk("user")
    \/ HelloOk("user")
    \/ register_voice_session(1)
    \/ send_text(TextCaller)
    \/ SendDone(TextCaller)

\* The tts handler on texts, beside a client that connects, registers and
\* unregisters the sessions of two voice turns, sends a text and loses its
\* connection.
NextTts ==
    \/ connect
    \/ OpenOk("user")
    \/ HelloOk("user")
    \/ ListenerExit
    \/ \E id \in Turns : register_voice_session(id)
    \/ \E id \in Turns : unregister_voice_session(id)
    \/ send_text(TextCaller)
    \/ SendDone(TextCaller)
    \/ WaitResult(TextCaller)
    \/ Finish(TextCaller)
    \/ WaitError(TextCaller)
    \/ \E st \in TtsStates, text \in Texts : handle_tts(st, text)

\* The packet sequences _build_ogg_opus_stream is called with.
InitOgg ==
    /\ InitCache /\ InitClient /\ last = NoOp /\ InitTurn
    /\ amid = None /\ aout = None /\ aop = "packets"
    /\ \E ps \in PacketLists, r \in SampleRates : ain = Some(StreamArgs(ps, r, 1))

NextOgg ==
    \/ BuildStream
    \/ ParseStream

\* The streams _parse_ogg_opus_packets is given when the encoder's output
\* ends inside a packet.
InitTail ==
    /\ InitCache /\ InitClient /\ last = NoOp /\ InitTurn
    /\ aout = None /\ aop = "built"
    /\ \E first \in {Fill(n, 1) : n \in {1, 254, 255}}, n \in 1..MaxCont,
          k \in 1..NFill, ending \in Endings :
           LET a == TailArgs(first, n, k, ending)
           IN ain = Some([opus_packets |-> a.opus_packets, partial |-> a.partial])
                  /\ amid = Some(a.stream)

NextTail == ParseStream

\* Voice turns through the three stages, beside a user who types a text, a
\* server that answers and a connection that comes and goes.
NextTurn ==
    \/ connect
    \/ OpenOk("user")
    \/ HelloOk("user")
    \/ ListenerExit
    \/ Recv
    \/ \E t \in Turns, i \in 1..4 : ServerAnswers(t, i)
    \/ \E t \in Turns : StartTurn(t)
    \/ \E t \in Turns : StreamAudio(t)
    \/ \E t \in Turns : RecognitionTimeout(t)
    \/ \E t \in Turns : RecognitionResumes(t)
    \/ \E t \in Turns : CollectResults(t)
    \/ \E t \in Turns : ConversationLookup(t)
    \/ \E t \in Turns : ConversationWakes(t)
    \/ \E t \in Turns : SynthesisLookup(t)
    \/ \E k \in TypedTexts : TypedLookup(k)
    \/ TickTurn

\* The recognition path and the background tasks of the turns alone: the
\* conversation and the synthesis paths are not called.
NextCollect ==
    \/ connect
    \/ OpenOk("user")
    \/ HelloOk("user")
    \/ ListenerExit
    \/ Recv
    \/ \E t \in Turns, i \in 1..4 : ServerAnswers(t, i)
    \/ \E t \in Turns : StartTurn(t)
    \/ \E t \in Turns : StreamAudio(t)
    \/ \E t \in Turns : RecognitionTimeout(t)
    \/ \E t \in Turns : RecognitionResumes(t)
    \/ \E t \in Turns : CollectResults(t)
    \/ \E k \in TypedTexts : TypedLookup(k)
    \/ TickCollect

\* The recognition path and the background task, with calls of the
\* recognition path that are cancelled.
NextCancel ==
    \/ connect
    \/ OpenOk("user")
    \/ HelloOk("user")
    \/ ListenerExit
    \/ Recv
    \/ \E t \in Turns, i \in 1..4 : ServerAnswers(t, i)
    \/ \E t \in Turns : StartTurn(t)
    \/ \E t \in Turns : StreamAudio(t)
    \/ \E t \in Turns : CancelRecognition(t)
    \/ \E t \in Turns : RecognitionTimeout(t)
    \/ \E t \in Turns : RecognitionResumes(t)
    \/ \E t \in Turns : CollectResults(t)
    \/ \E k \in TypedTexts : TypedLookup(k)
    \/ TickCollect

\* The read loop on the messages of a server, beside a client that connects,
\* registers a voice session, sends a text and loses its connection.
NextRead ==
    \/ connect
    \/ OpenOk("user")
    \/ HelloOk("user")
    \/ ListenerExit
    \/ register_voice_session(1)
    \/ send_text(TextCaller)
    \/ SendDone(TextCaller)
    \/ WaitResult(TextCaller)
    \/ Finish(TextCaller)
    \/ WaitError(TextCaller)
    \/ \E m \in Incoming : ServerSends(m)
    \/ listener_loop

SpecCache == Init /\ [][NextCache]_vars
SpecColl == Init /\ [][NextColl]_vars
SpecClient == Init /\ [][NextClient]_vars
SpecDrain == Init /\ [][NextDrain]_vars
SpecWrites == Init /\ [][NextWrites]_vars
SpecVoice == Init /\ [][NextVoice]_vars
SpecSlot == Init /\ [][NextSlot]_vars
SpecConn == Init /\ [][NextConn]_vars
SpecReentry == Init /\ [][NextReentry]_vars
SpecFrame == InitFrame /\ [][NextFrame]_vars
SpecOgg == InitOgg /\ [][NextOgg]_vars
SpecTts == Init /\ [][NextTts]_vars
SpecRead == Init /\ [][NextRead]_vars
SpecTail == InitTail /\ [][NextTail]_vars
SpecTurn == Init /\ [][NextTurn]_vars

\* The connection under a scheduler that runs what is ready: time passes, a
\* reconnect task whose sleep is over wakes, a handshake whose reply is there
\* reads it; and a server that, after MaxFail failed attempts in a row at
\* the latest, accepts the transport and answers hello.
FairConn ==
    /\ WF_vars(TickConn)
    /\ WF_vars(RetryWake)
    /\ WF_vars(OpenOk("retry"))
    /\ WF_vars(\E m \in HelloReplies : ServerHello(m))
    /\ WF_vars(hello_handshake("retry"))

SpecConnFair == Init /\ [][NextConn]_vars /\ FairConn

\* The text path under a scheduler that runs what is ready: a call that can
\* step does, with the permit handed to a waiting call when it is free; a
\* wait_for whose time is over raises; a reconnect task whose sleep is over
\* wakes; time passes.
FairDrain ==
    /\ WF_vars(TickDrain)
    /\ WF_vars(RetryWake)
    /\ \A c \in Pair :
          /\ WF_vars(Acquire(c))
          /\ WF_vars(DrainDone(c))
          /\ WF_vars(DrainExpired(c))
          /\ WF_vars(SendDone(c))
          /\ WF_vars(SendFail(c))
          /\ WF_vars(WaitResult(c))
          /\ WF_vars(Finish(c))
          /\ WF_vars(WaitError(c))
          /\ WF_vars(WaitTimeout(c))
          /\ WF_vars(PostDrainDone(c))

SpecDrainFair == Init /\ [][NextDrain]_vars /\ FairDrain

\* The recognition path and the background tasks under a scheduler that
\* runs what is ready: the read loop reads what has arrived, a task that can
\* step does, a timeout that is due fires and time passes.
FairCollect ==
    /\ WF_vars(Recv)
    /\ WF_vars(TickCollect)
    /\ \A t \in Turns :
          /\ WF_vars(StreamAudio(t))
          /\ WF_vars(RecognitionTimeout(t))
          /\ WF_vars(RecognitionResumes(t))
          /\ WF_vars(CollectResults(t))

SpecCollectFair == Init /\ [][NextCollect]_vars /\ FairCollect
SpecCancelFair == Init /\ [][NextCancel]_vars /\ FairCollect

(***************************************************************************)
(* PART V.  Properties                                                     *)
(***************************************************************************)

\* ------------------------------------------------------------------------
\* send_text (SpecClient, SpecDrain)
\* ------------------------------------------------------------------------

\* The turns whose fragments or audio frames a result holds.
Items(o) ==
    {o.text[i] : i \in DOMAIN o.text} \cup {o.audio[i] : i \in DOMAIN o.audio}

\* The call raised the timeout error.
TimedOut(t) == result[t].st = "timeout"

\* C1: after a send_text call has timed out, what any later send_text call
\* returns holds no sentence fragment and no audio frame of the timed-out
\* turn, whenever the turn's trailing output arrives.
C1_NoStaleOutput ==
    \A t \in Callers, c \in Callers :
        t # c /\ TimedOut(t) /\ result[c].st = "ok" => t \notin Items(result[c])

\* What the drain does ensure: a result holds output of a timed-out turn
\* only if that turn's tts stop had not been read when the request was
\* created, that is, only after a drain wait that gave up.
StaleOutputOnlyFromOpenTurns ==
    \A t \in Callers, c \in Callers :
        t # c /\ TimedOut(t) /\ result[c].st = "ok" /\ t \in Items(result[c])
            => t \in openAt[c]

\* This step creates the pending request of call c and transmits its message.
Creates(c) ==
    /\ pending' # None /\ pending'[1].text = c
    /\ pending = None \/ pending[1].text # c

InFlight(c) ==
    pc[c] \in {"drain", "sending", "sendfail", "wait", "yield", "postdrain"}

\* C3: at most one text request is in flight, and a call that writes the
\* pending-request slot never overwrites an unresolved waiter.
C3_OneInFlight ==
    [][/\ Cardinality({c \in Callers : InFlight(c)}) <= 1
       /\ \A c \in Callers :
              Creates(c) => pending = None \/ pending[1].future.st # "pending"
      ]_vars

\* ------------------------------------------------------------------------
\* The writers of the socket (SpecWrites)
\* ------------------------------------------------------------------------

Disconnects ==
    \/ listener /\ ~listener'
    \/ dpc # "idle" /\ dpc' = "idle"

\* C5: on every disconnect, by disconnect() or by the read loop's exit, an
\* unresolved pending text request's waiter is rejected with an error, and
\* the active voice session, if any, has its unresolved waiter rejected with
\* an error and its recognition-ready signal set.
C5_DisconnectReleasesWaiters ==
    [][Disconnects =>
          /\ pending # None /\ pending[1].future.st = "pending"
                 => pending' # None /\ pending'[1].future.st = "exception"
          /\ active # 0
                 => /\ sess[active].tts_future.st = "pending"
                        => sess'[active].tts_future.st = "exception"
                    /\ sess'[active].stt_event
      ]_vars

\* This step registers a new voice session.
Registers == Len(sess') = Len(sess) + 1

\* C6: register_voice_session(new) while another session is active makes
\* new the active session and cancels the old session's waiter if it is
\* unresolved, leaving it unchanged otherwise; a cancelled waiter is never
\* rejected nor resolved afterwards.
C6_RegisterCancelsOld ==
    [][/\ Registers /\ active # 0
           => /\ active' = Len(sess') /\ active' # active
              /\ sess'[active'].session_id = last'.ret_coll
              /\ sess'[active].tts_future =
                     IF sess[active].tts_future.st = "pending"
                     THEN Future("cancelled", <<>>)
                     ELSE sess[active].tts_future
       /\ \A i \in DOMAIN sess :
              sess[i].tts_future.st = "cancelled"
                  => sess'[i].tts_future = sess[i].tts_future
      ]_vars

\* A session was superseded while its waiter was unresolved: it is
\* cancelled, and a newer session is active.
C6_Witness ==
    \E i \in DOMAIN sess :
        /\ sess[i].tts_future.st = "cancelled"
        /\ active # 0 /\ active # i
        /\ last.op = "register_voice_session" /\ last.ret_coll = active

\* This step is a call of unregister_voice_session.
Unregisters ==
    /\ last'.op = "unregister_voice_session"
    /\ last' # last \/ active' # active

\* C7: unregister_voice_session(id) clears the active-voice-session slot
\* only when id is the active session's id; for any other id the slot and
\* the active session's state are unchanged; nothing else clears the slot.
C7_CompareAndClear ==
    [][/\ Unregisters
           => /\ active' = IF active # 0 /\ sess[active].session_id = last'.ret_coll
                           THEN 0 ELSE active
              /\ sess' = sess
       /\ active # 0 /\ active' = 0
           => Unregisters /\ last'.ret_coll = sess[active].session_id
      ]_vars

\* unregister_voice_session was called with the id of a superseded session,
\* and the newer session is still active.
C7_Witness ==
    /\ last.op = "unregister_voice_session"
    /\ active # 0
    /\ last.ret_coll \in DOMAIN sess
    /\ last.ret_coll # sess[active].session_id

\* ------------------------------------------------------------------------
\* The pipeline cache (SpecCache)
\* ------------------------------------------------------------------------

\* Every reverse-index key maps to a recognized text held in the forward map.
ReverseInForward ==
    \A r \in DOMAIN response_index : response_index[r] \in DOMAIN cache

\* Every forward entry's response text is a reverse-index key that maps back
\* to the entry's recognized text.
ForwardInReverse ==
    \A k \in DOMAIN cache :
        /\ cache[k].response_text \in DOMAIN response_index
        /\ response_index[cache[k].response_text] = k

\* C8: after any sequence of cache operations the forward map and the
\* reverse index are mutually consistent: every reverse-index key maps to a
\* recognized text present in the forward map, and every forward entry's
\* response text is a reverse-index key mapping back to that entry's
\* recognized text.
C8_IndicesConsistent == ReverseInForward /\ ForwardInReverse

\* This step is a call of get_by_input / get_audio_by_response.
CallsGetByInput == last'.op = "get_by_input"
CallsGetAudio == last'.op = "get_audio_by_response"

\* C9: a get_by_input(k) that directly follows store(k, r, chunks) returns
\* exactly the stored entry; every get_by_input(k) returns the entry held
\* under k, or nothing when none is held, and leaves none held; an entry
\* comes to be held under k only by a store, so a further get_by_input(k)
\* without an intervening store returns nothing.
C9_SingleUse ==
    [][/\ CallsGetByInput /\ last.op = "store" /\ last'.key = last.key
           => last'.ret_entry =
                  Some([stt_text |-> last.key, response_text |-> last.resp,
                        audio_chunks |-> last.chunks, created_at |-> now])
       /\ CallsGetByInput
           => /\ last'.key \notin DOMAIN cache'
              /\ last'.key \notin DOMAIN cache => last'.ret_entry = None
              /\ last'.ret_entry # None => last'.ret_entry = Some(cache[last'.key])
       /\ \A k \in Keys :
              k \notin DOMAIN cache /\ k \in DOMAIN cache'
                  => last'.op \in {"store", "complete_collector"} /\ last'.key = k
      ]_vars

\* A get_by_input returned an entry, and the entry is gone from the cache.
C9_Witness ==
    /\ last.op = "get_by_input"
    /\ last.ret_entry # None
    /\ last.key \notin DOMAIN cache

\* C10: a get_audio_by_response(r) that directly follows store(k, r, chunks)
\* returns chunks and removes the entry from both maps; after a
\* get_audio_by_response(r) that returned audio, the next get_by_input(k)
\* and the next get_audio_by_response(r) return nothing unless a store
\* came in between.
C10_AudioLookup ==
    [][/\ CallsGetAudio /\ last.op = "store" /\ last'.resp = last.resp
           => /\ last'.ret_audio = Some(last.chunks)
              /\ last.key \notin DOMAIN cache'
              /\ last.resp \notin DOMAIN response_index'
       /\ CallsGetAudio
           => /\ last'.resp \notin DOMAIN response_index'
              /\ last'.ret_audio # None => last'.key \notin DOMAIN cache'
       /\ last.op = "get_audio_by_response" /\ last.ret_audio # None
           => /\ CallsGetByInput /\ last'.key = last.key
                  => last'.ret_entry = None
              /\ CallsGetAudio /\ last'.resp = last.resp
                  => last'.ret_audio = None
      ]_vars

\* A get_audio_by_response returned the audio of an entry, and the entry is
\* gone from both maps.
C10_Witness ==
    /\ last.op = "get_audio_by_response"
    /\ last.ret_audio # None
    /\ last.key \notin DOMAIN cache
    /\ last.resp \notin DOMAIN response_index

\* ------------------------------------------------------------------------
\* The collectors (SpecColl) and expiry (SpecCache)
\* ------------------------------------------------------------------------

\* The collectors of key k whose ready signal is not set.
Unresolved(k) == {i \in DOMAIN coll : coll[i].stt_text = k /\ ~coll[i].ready}

\* The first created of them, 0 if there is none.
OldestUnresolved(k) ==
    IF Unresolved(k) = {} THEN 0
    ELSE CHOOSE i \in Unresolved(k) : \A j \in Unresolved(k) : i <= j

\* This step is a call of complete_collector or fail_collector.
Resolves ==
    /\ last'.op \in {"complete_collector", "fail_collector"}
    /\ last' # last \/ nstores' # nstores

\* C11: get_collector(key) returns the oldest collector of the key that is
\* not yet completed, failed or swept, and complete_collector(key) /
\* fail_collector(key) resolve exactly that collector and change no other.
C11_Fifo ==
    [][/\ last' # last /\ last'.op = "get_collector"
           => last'.ret_coll = OldestUnresolved(last'.key)
       /\ Resolves
           => /\ last'.ret_coll = OldestUnresolved(last'.key)
              /\ \A i \in DOMAIN coll :
                     IF i = OldestUnresolved(last'.key)
                     THEN /\ coll'[i].ready
                          /\ last'.op = "complete_collector"
                                 => /\ coll'[i].response_text = Some(last'.resp)
                                    /\ coll'[i].audio_chunks = last'.chunks
                     ELSE coll'[i] = coll[i]
      ]_vars

\* Two collectors were created for one key; a complete_collector resolved
\* the first and the second is still waiting.
C11_Witness ==
    \E i, j \in DOMAIN coll :
        /\ i < j /\ coll[i].stt_text = coll[j].stt_text
        /\ last.op = "complete_collector" /\ last.ret_coll = i
        /\ coll[i].ready /\ coll[i].response_text # None
        /\ ~coll[j].ready /\ OldestUnresolved(coll[j].stt_text) = j

\* C12: a lookup (get_by_input, get_audio_by_response) made at least the
\* sweep interval after the previous sweep never returns an entry, nor the
\* audio of an entry, whose age exceeds the TTL.
C12_ExpiredNeverServed ==
    [][(/\ last' # last
        /\ last'.op \in {"get_by_input", "get_audio_by_response"}
        /\ now - last_cleanup >= CLEANUP_INTERVAL)
           => /\ last'.ret_entry # None
                  => now - last'.ret_entry[1].created_at <= PIPELINE_CACHE_TTL
              /\ last'.ret_audio # None
                  => /\ last'.key \in DOMAIN cache
                     /\ now - cache[last'.key].created_at <= PIPELINE_CACHE_TTL
      ]_vars

\* get_by_input was called for a key whose entry had outlived the TTL: the
\* call's sweep evicted the entry and the call returned nothing.
C12_Witness ==
    /\ last.op = "get_by_input"
    /\ last.key \in evicted.keys
    /\ last.ret_entry = None

\* Collector i is in the queue of some key.
Queued(cs, i) == \E k \in Keys : \E n \in DOMAIN cs[k] : cs[k][n] = i

\* C13: a collector that leaves its queue has its ready signal set at that
\* moment, and one that leaves it by the expiry sweep is failed: its
\* response text is absent.
C13_RemovedCollectorsAreReady ==
    [][\A i \in DOMAIN coll :
          Queued(collectors, i) /\ ~Queued(collectors', i)
              => /\ coll'[i].ready
                 /\ ~Resolves => coll'[i].response_text = None
      ]_vars

\* A create_collector call swept collectors: they are out of their queues,
\* ready and without a response.
C13_Witness ==
    /\ last.op = "create_collector"
    /\ evicted.colls # {}
    /\ \A i \in evicted.colls :
           ~Queued(collectors, i) /\ coll[i].ready /\ coll[i].response_text = None

\* C14: once a collector's ready signal is set, its response text and its
\* audio chunks never change, and the signal stays set.
C14_ReadyIsFinal ==
    [][\A i \in DOMAIN coll :
          coll[i].ready
              => /\ coll'[i].ready
                 /\ coll'[i].response_text = coll[i].response_text
                 /\ coll'[i].audio_chunks = coll[i].audio_chunks
      ]_vars

\* A collector was failed, and a later complete_collector for its key has
\* run without touching it.
C14_Witness ==
    \E i \in DOMAIN coll :
        /\ coll[i].ready /\ coll[i].response_text = None
        /\ last.op = "complete_collector"
        /\ last.key = coll[i].stt_text
        /\ last.ret_coll # i

\* ------------------------------------------------------------------------
\* The connection (SpecConn)
\* ------------------------------------------------------------------------

\* The connection states in the order a connection is made in.
Rank(st) ==
    CASE st = "disconnected" -> 0
      [] st = "connecting" -> 1
      [] st = "connected" -> 2
      [] st = "authenticated" -> 3

\* The reply the handshake is about to read is a hello of the server, sent on
\* the socket the client holds.
HelloReceived == ws = "open" /\ wire # <<>> /\ Head(wire).kind = "hello"

HandshakeEnds(who) == cpc[who] = "hello" /\ cpc'[who] # "hello" /\ dpc' = dpc

\* C16: a handshake that ends without a hello reply (no reply in time, a
\* binary frame, text that is not JSON, a reply of another type) fails the
\* attempt: the state becomes disconnected, not authenticated, no read loop
\* starts, connect() raises and the reconnect task goes back to sleep.  A
\* hello reply authenticates the client whether or not it carries a session
\* id.
C16_HelloDecidesTheAttempt ==
    [][\A who \in {"user", "retry"} :
          HandshakeEnds(who)
              => IF HelloReceived
                 THEN state' = "authenticated" /\ listener'
                 ELSE /\ state' = "disconnected"
                      /\ ~listener'
                      /\ cpc'[who] = IF who = "user" THEN "raised" ELSE "sleep"
      ]_vars

\* connect() raised after the transport had opened: the handshake failed, and
\* the client is disconnected with no read loop.
C16_Witness ==
    /\ cpc.user = "raised" /\ ws = "open" /\ wire = <<>>
    /\ state = "disconnected" /\ ~listener /\ should_reconnect /\ dpc = "idle"

\* C17: while the reconnect task sleeps, the wait it began is the minimum
\* delay doubled once for every attempt that failed in a row since the
\* connection was lost, capped at the maximum: min(5 * 2^n, 60) after n
\* failed attempts, whether the transport or the handshake failed.
C17_BackoffDoublesPerFailure ==
    cpc.retry = "sleep"
        => reconnect_delay =
               Min(RECONNECT_MIN_DELAY * RECONNECT_BACKOFF_FACTOR ^ fails,
                   RECONNECT_MAX_DELAY)

\* ------------------------------------------------------------------------
\* The reconnect task (SpecReentry)
\* ------------------------------------------------------------------------

\* A read loop ends at this step of its own accord: its finally clause runs.
ReadLoopExits == (listener /\ ~listener' /\ dpc' = dpc) \/ orphans' < orphans

\* C18: at most one reconnect task runs at any time, and a read loop that
\* ends while one runs and asks for another creates none and changes nothing
\* of the running one: not its position, its sleep, its delay or its count
\* of failures.
C18_OneReconnectTask ==
    /\ [](nretry <= 1)
    /\ [][ReadLoopExits /\ should_reconnect /\ nretry > 0
             => UNCHANGED <<cpc, rtimer, fails, reconnect_delay, nretry>>
         ]_vars

\* A read loop ended while the reconnect task slept after a failed attempt:
\* the request found the task running, which sleeps on, and no read loop is
\* left.
C18_Witness ==
    /\ sched = "noop" /\ nretry = 1
    /\ cpc.retry = "sleep" /\ fails > 0 /\ rtimer < reconnect_delay
    /\ ~listener /\ orphans = 0

\* ------------------------------------------------------------------------
\* disconnect() and reconnection (SpecConn)
\* ------------------------------------------------------------------------

\* C19: once disconnect() has returned, and until connect() is called, the
\* state is disconnected, the client holds no socket, no read loop and no
\* reconnect task runs and no attempt is in progress, whatever the client
\* was doing when disconnect() was called.
C19_DisconnectIsFinal ==
    (~should_reconnect /\ dpc = "idle")
        => /\ state = "disconnected"
           /\ ws = "none"
           /\ ~listener
           /\ cpc.retry = "none"
           /\ cpc.user \in {"idle", "raised"}

\* disconnect() was called while the reconnect task was backing off after
\* failed attempts, and has returned.
C19_Witness ==
    /\ ~should_reconnect /\ dpc = "idle"
    /\ fails > 1 /\ reconnect_delay > RECONNECT_MIN_DELAY
    /\ state = "disconnected" /\ ws = "none" /\ cpc.retry = "none"

\* C20: a read loop that ends while reconnection is desired leaves the
\* client disconnected, with its pending request and voice session failed
\* and a reconnect task running.  The reconnect task ends only when an
\* attempt of its succeeds or disconnect() is called; so with a server that
\* in the end accepts the transport and answers hello, a client whose
\* reconnect task runs is authenticated again later, unless disconnect() is
\* called.
C20_ReconnectsUntilAuthenticated ==
    /\ [][ReadLoopExits /\ should_reconnect
             => /\ state' = "disconnected"
                /\ pending' = FailedPending(pending)
                /\ sess' = FailedSess(sess, active)
                /\ cpc'.retry # "none" /\ nretry' = 1
         ]_vars
    /\ [][cpc.retry # "none" /\ cpc'.retry = "none"
             => state' = "authenticated" \/ ~should_reconnect'
         ]_vars
    /\ (cpc.retry # "none") ~> (state = "authenticated" \/ ~should_reconnect)

\* The read loop ended while reconnection was desired; the reconnect task it
\* started has failed more than once and sleeps before its next attempt.
C20_Witness ==
    /\ should_reconnect /\ state = "disconnected" /\ ~listener
    /\ sched = "spawned" /\ nretry = 1
    /\ cpc.retry = "sleep" /\ fails > 1 /\ rtimer > 0

\* ------------------------------------------------------------------------
\* send_text: timeouts and the connection check (SpecDrain, SpecWrites)
\* ------------------------------------------------------------------------

\* The wait of call c for its result times out at this step.
ResultTimesOut(c) ==
    /\ pc[c] = "wait" /\ pc'[c] # "wait"
    /\ pending # None /\ pending[1].future.st = "pending"

\* C21: when a send_text call's wait for its result times out, the pending
\* slot is cleared and the call, still holding the lock, waits for the tts
\* stop signal no longer than the drain timeout; the call then raises the
\* timeout error.  Neither step touches the connection: its state, its
\* socket, its read loop and its reconnect task stay as they are.
C21_TimeoutLeavesConnection ==
    /\ [](\A c \in Callers : pc[c] = "postdrain" => lock = c /\ timer <= DrainTimeout)
    /\ [][\A c \in Callers :
             /\ ResultTimesOut(c)
                 => /\ pending' = None
                    /\ UNCHANGED connVars
                    /\ IF tts_done
                       THEN pc'[c] = "done" /\ result'[c].st = "timeout"
                       ELSE pc'[c] = "postdrain" /\ timer' = DrainTimeout
             /\ pc[c] = "postdrain" /\ pc'[c] # "postdrain"
                 => /\ tts_done \/ timer = 0
                    /\ pc'[c] = "done" /\ result'[c].st = "timeout"
                    /\ UNCHANGED <<connVars, pending>>
         ]_vars

\* A call timed out, waited the whole drain timeout for a signal that did
\* not come and raised; the client is authenticated as before, its socket
\* open and its read loop running.
C21_Witness ==
    \E c \in Callers :
        /\ result[c].st = "timeout" /\ prev = c /\ lock = 0
        /\ ~tts_done /\ pending = None
        /\ state = "authenticated" /\ ws = "open" /\ listener /\ cpc.retry = "none"

\* Call c begins to write its message to the socket at this step.
BeginsSend(c) == pc[c] # "sending" /\ pc'[c] = "sending"

\* C22: send_text creates its pending request and begins to write its
\* message, and the voice path's three senders begin to write theirs, only
\* while the client is authenticated; this also when the connection is lost
\* while a send_text call waits for the lock or drains.
C22_SendsOnlyWhenAuthenticated ==
    [][/\ \A c \in Callers : Creates(c) \/ BeginsSend(c) => is_connected
       /\ vw \notin VoiceSends /\ vw' \in VoiceSends => is_connected
      ]_vars

\* ------------------------------------------------------------------------
\* Binary frames (SpecFrame)
\* ------------------------------------------------------------------------

\* C23: for every payload p of 0 to 65535 bytes pack_audio_frame does not
\* raise and returns the header [0, 0, length high byte, length low byte]
\* followed by p, and unpack_audio_frame of that frame returns p.
C23_FrameRoundTrip ==
    /\ aop = "pack_raised" => Len(ain[1]) > MaxU16
    /\ aop \in {"packed", "unpacked", "handled"} /\ ain # None
           => LET p == ain[1]
              IN amid = Some(<<0, 0, Len(p) \div 256, Len(p) % 256>> \o p)
    /\ aop \in {"unpacked", "handled"} /\ ain # None => aout = ain

\* A payload of 65535 bytes was packed and unpacked again.
C23_Witness ==
    /\ aop = "unpacked" /\ ain # None
    /\ Len(ain[1]) = MaxU16 /\ Len(amid[1]) = MaxU16 + FRAME_HEADER_SIZE
    /\ aout = ain

\* The frame is shorter than a header, or is not of the audio type, or
\* declares more payload than follows its header.
Malformed(data) ==
    \/ Len(data) < 4
    \/ data[1] # 0
    \/ data[3] * 256 + data[4] > Len(data) - 4

\* C24: unpack_audio_frame returns None for every frame that is shorter
\* than 4 bytes, whose type byte is not 0 or whose declared size exceeds the
\* bytes after the header; the read loop, given such a frame, leaves the
\* pending request and the voice sessions as they are.
C24_MalformedFramesAreDropped ==
    /\ [](aop \in {"unpacked", "handled"} /\ Malformed(amid[1]) => aout = None)
    /\ [][aop # "handled" /\ aop' = "handled" /\ Malformed(amid[1])
             => UNCHANGED <<pending, sess>>
         ]_vars

\* The read loop was given an audio frame cut short while a text request
\* was pending and a voice session active: their buffers are empty.
C24_Witness ==
    /\ aop = "handled" /\ ain = None /\ aout = None
    /\ Len(amid[1]) > 4 /\ amid[1][1] = 0
    /\ amid[1][3] * 256 + amid[1][4] > Len(amid[1]) - 4
    /\ pending # None /\ pending[1].audio_chunks = <<>>
    /\ active # 0 /\ sess[active].audio_chunks = <<>>

\* The read loop handles a frame in this step.
HandlesFrame == aop # "handled" /\ aop' = "handled"

\* The payload of a well-formed audio frame: what follows its header.
PayloadOf(data) == SubSeq(data, 5, Len(data))

\* A frame of the audio type whose declared size is the size of what
\* follows its header.
ValidFrame(data) ==
    /\ Len(data) >= 4
    /\ data[1] = 0
    /\ data[3] * 256 + data[4] = Len(data) - 4

\* C32: the read loop, given a valid audio frame, appends its payload once
\* to the audio buffer of the active voice session if there is one, and
\* once to the audio buffer of the pending request if there is one, each
\* whether or not the other exists, and changes nothing else of them; with
\* no session and no request the client's state stays as it was.
C32_FrameGoesToEachBuffer ==
    [][HandlesFrame /\ ValidFrame(amid[1])
          => /\ active' = active
             /\ IF active # 0
                THEN sess' = [sess EXCEPT ![active].audio_chunks =
                                              Append(@, PayloadOf(amid[1]))]
                ELSE sess' = sess
             /\ IF pending # None
                THEN pending' = Some([pending[1] EXCEPT !.audio_chunks =
                                              Append(@, PayloadOf(amid[1]))])
                ELSE pending' = None
             /\ (active = 0 /\ pending = None => UNCHANGED <<clientVars, cacheVars>>)
     ]_vars

\* The read loop was given a valid frame of 255 bytes of audio while a text
\* request was pending and a voice session active: each buffer holds the
\* payload, once.
C32_Witness ==
    /\ aop = "handled" /\ ain = None
    /\ ValidFrame(amid[1]) /\ Len(amid[1]) = 259
    /\ pending # None /\ pending[1].audio_chunks = <<PayloadOf(amid[1])>>
    /\ active # 0 /\ sess[active].audio_chunks = <<PayloadOf(amid[1])>>

\* ------------------------------------------------------------------------
\* Read loops and sockets (SpecReentry, SpecConn)
\* ------------------------------------------------------------------------

\* The read loops that run: the one _listener_task names and those it no
\* longer names.
ReadLoops == (IF listener THEN 1 ELSE 0) + orphans

\* websockets.connect returns in this step: a socket is opened and _ws
\* names it.
TransportOpens ==
    \E who \in {"user", "retry"} : cpc[who] = "opening" /\ cpc'[who] = "hello"

\* C37: under every interleaving of connect(), disconnect(), read-loop
\* exits and retry attempts, at most one read loop runs and at most one
\* socket is open: a socket is opened only when the socket _ws named is not
\* open and no read loop runs on it.
C37_OneReadLoopOneSocket ==
    /\ [](ReadLoops <= 1)
    /\ [][TransportOpens => ws # "open" /\ ~listener]_vars

\* C38: when a connection attempt fails after its transport opened, by a
\* hello that is refused or that does not come, the socket is closed and
\* not kept: the state being disconnected and no read loop running, no
\* socket is open.
C38_FailedHandshakeClosesSocket ==
    (state = "disconnected" /\ ~listener /\ dpc = "idle") => ws # "open"

\* ------------------------------------------------------------------------
\* Sessions that left the slot (SpecSlot)
\* ------------------------------------------------------------------------

\* C39: no step changes a voice session that is not in the active slot: a
\* session that was superseded or unregistered keeps its recognized text,
\* its fragments, its audio and its waiter through every later stt, tts and
\* audio message and through every loss of the connection.
C39_OnlyActiveSessionChanges ==
    [][\A id \in DOMAIN sess : id # active => sess'[id] = sess[id]]_vars

\* Session 1 was unregistered with its waiter unresolved and is as it was
\* created; session 2, registered after it, received a recognized text and
\* a fragment and then lost its connection.
C39_Witness ==
    /\ Len(sess) >= 2
    /\ sess[1] = VoicePipelineSession(1)
    /\ sess[2].stt_text # None
    /\ sess[2].response_chunks # <<>>
    /\ sess[2].tts_future.st = "exception"

\* ------------------------------------------------------------------------
\* The pending slot and the send lock (SpecClient)
\* ------------------------------------------------------------------------

\* C36: whenever no send_text call holds the send lock, the pending slot is
\* empty: every way out of send_text, by a result, a timeout, a connection
\* error or a failed send, leaves the slot cleared.
C36_SlotEmptyOutsideLock == LockFree => pending = None

\* ------------------------------------------------------------------------
\* The read loop, message by message (SpecRead)
\* ------------------------------------------------------------------------

\* The read loop takes the message the server sent.
ReadsMessage == listener /\ wire # <<>> /\ wire' = Tail(wire) /\ ws' = "open"

\* A message that is a protocol error: a binary frame that is not a valid
\* audio frame, text that is not JSON, JSON that is not an object, an object
\* whose type is missing or unknown.
ProtocolError(m) ==
    IF m.bin
    THEN ~ValidFrame(m.data)
    ELSE \/ m.json # "object"
         \/ m.type = None
         \/ m.type \notin {Some("tts"), Some("stt"), Some("mcp"), Some("hello")}

\* C33: the read loop of an authenticated client, given a message that is a
\* protocol error, drops it: the loop goes on, the state stays authenticated
\* and the pending request and the sessions are as they were.
C33_ProtocolErrorsAreDropped ==
    [][ReadsMessage /\ state = "authenticated" /\ ProtocolError(Head(wire))
          => /\ listener'
             /\ state' = "authenticated"
             /\ UNCHANGED <<pending, sess>>
     ]_vars

\* ------------------------------------------------------------------------
\* The OGG/Opus container (SpecOgg)
\* ------------------------------------------------------------------------

\* C25: for every sequence of opus packets, those of length 0, of a multiple
\* of 255 and of 255 or more included, the stream is built and parsing it
\* yields the packets of the sequence, in their order.
C25_OggRoundTrip ==
    /\ aop # "build_raised"
    /\ aop = "parsed" => aout = Some(ain[1].opus_packets)

\* What does hold: the stream is built unless a packet has 255 * 255 bytes or
\* more, and parsing it yields the packets that are not empty, in their order.
OggRoundTripOfNonEmptyPackets ==
    /\ aop = "build_raised"
           => \E i \in DOMAIN ain[1].opus_packets :
                  Len(ain[1].opus_packets[i]) >= SEGMENT_SIZE * MaxU8
    /\ aop = "parsed"
           => /\ \A i \in DOMAIN ain[1].opus_packets :
                     Len(ain[1].opus_packets[i]) < SEGMENT_SIZE * MaxU8
              /\ aout = Some(SelectSeq(ain[1].opus_packets, LAMBDA pk : Len(pk) > 0))

\* ------------------------------------------------------------------------
\* Streams that end inside a packet (SpecTail)
\* ------------------------------------------------------------------------

\* C35: when the input ends, or its synchronisation is lost, while a packet
\* is partially assembled (segments of 255 bytes and no terminating segment),
\* the parser yields the whole packets and no packet for the partial one.
C35_PartialPacketIsNotYielded ==
    (aop = "parsed" /\ ain[1].partial # <<>>) => aout = Some(ain[1].opus_packets)

\* ------------------------------------------------------------------------
\* The expiry sweep (SpecColl)
\* ------------------------------------------------------------------------

\* The operations of the cache.
CacheOps ==
    {"create_collector", "get_collector", "complete_collector", "fail_collector",
     "store", "get_by_input", "get_audio_by_response"}

\* C28: every operation of the cache that is called when the minimum
\* interval has elapsed since the last sweep runs the sweep: the time of the
\* last sweep becomes the current time and no collector older than the TTL
\* is left in a queue.
C28_EveryOperationSweeps ==
    [][(last'.op \in CacheOps /\ CleanupDue)
          => /\ last_cleanup' = now
             /\ \A k \in Keys : \A i \in 1..Len(collectors'[k]) :
                    ~Expired(coll'[collectors'[k][i]].created_at)
      ]_vars

\* ------------------------------------------------------------------------
\* A voice turn (SpecTurn)
\* ------------------------------------------------------------------------

\* The turns whose background task completed the collector with a response
\* and audio, neither empty, no other turn having been started.
DeliveredAlone(t) ==
    /\ Len(sess) = 1
    /\ bg[t].delivered # None
    /\ bg[t].delivered[1][1] # <<>>
    /\ bg[t].delivered[1][2] # <<>>

\* C26: for one voice turn whose background collection completes with
\* response R and audio A, the conversation path obtains R and the synthesis
\* path's lookup that follows obtains A, whether complete_collector ran
\* before or after the conversation path's lookups.
C26_ResponseThenAudio ==
    \A t \in Turns :
        DeliveredAlone(t) =>
            /\ conv[t].st = "done" => conv[t].response = Some(bg[t].delivered[1][1])
            /\ syn[t].st = "done" => syn[t].audio = Some(bg[t].delivered[1][2])

\* What holds of one turn: the conversation path obtains R in either order,
\* and the synthesis path obtains A when the conversation path found the
\* collector, that is when complete_collector ran after its lookup.
ResponseThenAudioWhenWaited ==
    \A t \in Turns :
        DeliveredAlone(t) =>
            /\ conv[t].st = "done" => conv[t].response = Some(bg[t].delivered[1][1])
            /\ syn[t].st = "done" /\ conv[t].held # 0
                   => syn[t].audio = Some(bg[t].delivered[1][2])
\* The synthesis path finds nothing when get_by_input served the conversation
\* path.
NoAudioAfterGetByInput ==
    \A t \in Turns :
        DeliveredAlone(t) /\ syn[t].st = "done" /\ conv[t].held = 0
            => syn[t].audio = None

\* C27: the result of a turn's background task is delivered to the collector
\* that turn created or to none, never to the collector of another turn; it
\* is delivered to none only when the sweep has removed and failed the
\* turn's collector before the task finished.
C27_ResultGoesToOwnCollector ==
    \A t \in Turns :
        bg[t].st = "done" =>
            /\ bg[t].popped \in {0, rec[t].coll}
            /\ bg[t].popped = 0 =>
                   /\ coll[rec[t].coll].ready
                   /\ coll[rec[t].coll].response_text = None
C27_Witness ==
    /\ bg[1].st = "done" /\ bg[1].popped = 0
    /\ bg[2].st = "done" /\ bg[2].popped = rec[2].coll /\ bg[2].delivered # None
    /\ bg[1].text = bg[2].text

\* ------------------------------------------------------------------------
\* The background tasks under fairness (SpecCollectFair)
\* ------------------------------------------------------------------------

\* C29: every collector the recognition path creates has its ready signal
\* set in the end: by the result's arrival, the timeout of the background
\* task, a newer session, the loss of the connection or the sweep.
C29_EveryCollectorBecomesReady ==
    \A t \in Turns :
        (rec[t].coll # 0) ~> (rec[t].coll # 0 /\ coll[rec[t].coll].ready)
\* A collector that the sweep failed after the clock had passed its age,
\* beside one that its background task failed.
C29_Witness ==
    /\ rec[1].coll # 0 /\ rec[2].coll # 0
    /\ \A t \in Turns : coll[rec[t].coll].ready /\ bg[t].st = "done"
    /\ bg[1].popped = 0
    /\ bg[2].popped = rec[2].coll /\ bg[2].delivered = None

\* C40: every voice session that the recognition path registers leaves the
\* active slot in the end, on every path of the recognition and of its
\* background task: unregistered by its own id or replaced by a newer one.
C40_EverySessionLeavesTheSlot ==
    \A t \in Turns : (active = t) ~> (active # t)

\* ------------------------------------------------------------------------
\* The text path under fairness (SpecDrainFair)
\* ------------------------------------------------------------------------

\* C30: every send_text call that has started returns a result or raises in
\* the end, whatever the server, the read loop, the reconnect task and
\* disconnect() do meanwhile: it does not wait forever for the permit, for
\* the drain or for its result.
C30_EveryCallEnds ==
    \A c \in Pair : (pc[c] \notin {"idle", "done"}) ~> (pc[c] = "done")
\* A call that drained until the drain's timeout and whose send then
\* failed, disconnect() having closed the socket meanwhile.
C30_Witness ==
    \E c \in Pair :
        /\ pc[c] = "done"
        /\ drained[c] = "timeout"
        /\ result[c].st = "send_error"
        /\ dpc # "idle"
        /\ ws # "open"

\* C34: the conversation handler always returns a response, whichever way
\* its wait for the collector ends (results, a failed collector, the time
\* limit): it answers with a text and never raises.
C34_HandlerAlwaysAnswers ==
    \A t \in Turns :
        /\ conv[t].st # "raised"
        /\ (conv[t].st = "done" => conv[t].response # None)

\* ------------------------------------------------------------------------
\* The tts handler on texts (SpecTts)
\* ------------------------------------------------------------------------

\* The step is one turn of the read loop on a tts message.
HandlesTts(st) == emitted' = emitted + 1 /\ last'.op = "handle_tts" /\ last'.key = st

\* r is the fragments of chunks in their order, one space between each two.
StartOf(chunks, i) == Sum([j \in 1..(i - 1) |-> Len(chunks[j]) + 1])
IsSpaceJoined(r, chunks) ==
    /\ Len(r) = IF chunks = <<>> THEN 0 ELSE StartOf(chunks, Len(chunks) + 1) - 1
    /\ \A i \in 1..Len(chunks) :
          /\ \A k \in 1..Len(chunks[i]) : r[StartOf(chunks, i) + k] = chunks[i][k]
          /\ i > 1 => r[StartOf(chunks, i)] = " "

\* What a sentence_start with the given text makes of a list of fragments.
WithFragment(chunks, text) ==
    IF text = <<>> \/ text[1] = "%" THEN chunks ELSE Append(chunks, text)

\* What a stop makes of a waiter with the given fragments.
Resolved(future, future2, chunks) ==
    IF future.st = "pending"
    THEN future2.st = "result" /\ IsSpaceJoined(future2.val, chunks)
    ELSE future2 = future

\* C31: a tts stop sets the synthesis-finished signal and resolves each
\* unresolved waiter, the active session's and the pending request's, with
\* the fragments received since its owner was created, in their order,
\* joined by single spaces; a waiter that is resolved, cancelled or rejected
\* is left as it is.  The fragments of an owner are empty when it is
\* created and grow by each sentence_start text that is neither empty nor
\* begins with '%'.
C31_StopResolvesWithJoinedFragments ==
    /\ [][HandlesTts("stop") =>
             /\ tts_done'
             /\ \A a \in DOMAIN sess :
                   /\ sess'[a].response_chunks = sess[a].response_chunks
                   /\ IF a = active
                      THEN Resolved(sess[a].tts_future, sess'[a].tts_future,
                                    sess[a].response_chunks)
                      ELSE sess'[a].tts_future = sess[a].tts_future
             /\ pending # None =>
                   /\ pending' # None
                   /\ pending'[1].response_chunks = pending[1].response_chunks
                   /\ Resolved(pending[1].future, pending'[1].future,
                               pending[1].response_chunks)
             /\ pending = None => pending' = None]_vars
    /\ [][HandlesTts("sentence_start") =>
             /\ \A a \in DOMAIN sess :
                   /\ sess'[a].tts_future = sess[a].tts_future
                   /\ sess'[a].response_chunks =
                          IF a = active
                          THEN WithFragment(sess[a].response_chunks, last'.resp)
                          ELSE sess[a].response_chunks
             /\ pending # None =>
                   /\ pending' # None
                   /\ pending'[1].future = pending[1].future
                   /\ pending'[1].response_chunks =
                          WithFragment(pending[1].response_chunks, last'.resp)]_vars
    /\ [][emitted' = emitted =>
             /\ \A a \in DOMAIN sess' :
                   sess'[a].response_chunks =
                       IF a \in DOMAIN sess THEN sess[a].response_chunks ELSE <<>>
             /\ pending' # None =>
                   pending'[1].response_chunks =
                       IF pending # None /\ pending[1].text = pending'[1].text
                       THEN pending[1].response_chunks ELSE <<>>]_vars
\* A request and a session created after the request's first fragment, both
\* resolved by one stop: the request with two fragments and a space between
\* them, the session with the second alone.
C31_Witness ==
    /\ pending # None /\ active # 0
    /\ pending[1].future.st = "result" /\ sess[active].tts_future.st = "result"
    /\ Len(pending[1].response_chunks) = 2
    /\ pending[1].future.val =
           pending[1].response_chunks[1] \o <<" ">> \o pending[1].response_chunks[2]
    /\ sess[active].response_chunks = <<pending[1].response_chunks[2]>>
    /\ sess[active].tts_future.val = pending[1].response_chunks[2]
    /\ tts_done

====
